---- MODULE Spec2Model ----
(***************************************************************************)
(* Tic-tac-toe (3x3) and its 4x4 "dual cell" variant with tabular TD(0)    *)
(* Q-learning agents: src/assignment5 and src/assignment5/4by4.            *)
(*                                                                         *)
(* Four specifications share one set of variables:                         *)
(*   SpecBoard - the Board class driven through its public methods;        *)
(*   SpecQ     - the QTable class driven through its public methods;       *)
(*   Spec      - one episode of Game.play between two players, and the     *)
(*               metrics recorded after it;                                *)
(*   SpecFair  - Spec with play() run to completion.                       *)
(* Python None is the string "None" for cells, symbols and features, and   *)
(* NonePos for an Optional[int] position.                                  *)
(***************************************************************************)
EXTENDS Integers, Sequences, FiniteSets, TLC

VARIABLES
    size,                  \* 3: assignment5/*.py, 4: assignment5/4by4/4*.py
    board,                 \* Board.board, indexed 0 .. size*size-1
    num_dual_cells,        \* Board.num_dual_cells (0 in the 3x3 variant)
    dual_cell_positions,   \* Board.dual_cell_positions (order is never read)
    ret,                   \* return value of the last Board.make_move call
    pc,                    \* where the driver of the object stands
    current_player_index,  \* Game.current_player_index
    players,               \* Game.players, indexed 0 .. 1
    table,                 \* QTable.table: key -> value in units of 1/QScale
    alpha,                 \* QTable.alpha  in units of 1/HDen
    gamma,                 \* QTable.gamma  in units of 1/HDen
    epsilon,               \* QTable.epsilon in units of 1/HDen
    turnNo,                \* number of play_turn calls made in this episode
    file,                  \* content of the file QTable.save wrote, if any
    metrics,               \* the LearningMetrics the agents' metrics attribute refers to, if any
    td_updates,            \* update_q_value calls play_turn has made since play() began
    log                    \* what the last step did (calls made, values returned)

vars == <<size, board, num_dual_cells, dual_cell_positions, ret, pc, current_player_index, players, table, alpha, gamma,
          epsilon, turnNo, file, metrics, td_updates, log>>

boardVars == <<size, board, num_dual_cells, dual_cell_positions, ret>>
gameVars  == <<current_player_index, players, metrics, td_updates, turnNo>>
qVars     == <<table, alpha, gamma, epsilon>>

(***************************************************************************)
(* Bounds                                                                  *)
(***************************************************************************)
\* largest number of non-empty cells the Board driver produces
MaxFilled == 4
\* largest num_dual_cells the Board driver constructs a board with
MaxDualBoard == 4
\* largest num_dual_cells a Game is constructed with
MaxDualGame == 2
\* a random.choice over a list, and a human's input among the valid
\* positions, is drawn from the list's first MaxPick3 entries in a 3x3 game
\* and from its first MaxPick4 entries in a 4x4 game
MaxPick3 == 2
MaxPick4 == 1

\* the cells of the 4x4 board that the Board driver writes to: row 0,
\* column 0 and the anti-diagonal
Window4 == {0, 1, 2, 3, 4, 8, 12, 6, 9}

\* Q-values are fixed-point numbers, QScale units to 1.0; alpha, gamma and
\* epsilon are fractions of HDen
QScale == 4
HDen == 2

None == "None"
NonePos == -2
\* Optional[dict] and Optional[List[str]]: None is NoneOpt, a value v is Some(v)
NoneOpt == <<>>
Some(v) == <<v>>
IsNone(o) == Len(o) = 0
ValueOf(o) == o[1]
Symbols == {"X", "O"}

Min(a, b) == IF a < b THEN a ELSE b
Max(a, b) == IF a > b THEN a ELSE b

(***************************************************************************)
(* Board                                                                   *)
(***************************************************************************)
NumCells(sz) == sz * sz
Positions(sz) == 0 .. (NumCells(sz) - 1)

EmptyBoard(sz) == [p \in Positions(sz) |-> None]

\* Board.__init__ of board.py: the win lines in the order they are scanned
winning_combinations_3x3 ==
    << <<0, 1, 2>>, <<3, 4, 5>>, <<6, 7, 8>>,
       <<0, 3, 6>>, <<1, 4, 7>>, <<2, 5, 8>>,
       <<0, 4, 8>>, <<2, 4, 6>> >>

\* Board.__init__ of 4board.py: rows and columns are generated
winning_combinations_4x4 ==
    [row \in 1..4 |-> [i \in 1..4 |-> (row - 1) * 4 + (i - 1)]]
    \o [col \in 1..4 |-> [row \in 1..4 |-> (col - 1) + (row - 1) * 4]]
    \o << <<0, 5, 10, 15>>, <<3, 6, 9, 12>> >>

winning_combinations(sz) ==
    IF sz = 3 THEN winning_combinations_3x3 ELSE winning_combinations_4x4

\* [board[pos] for pos in combo]
SymbolsOf(b, combo) == [k \in 1..Len(combo) |-> b[combo[k]]]

\* list.count(v) and sum(1 for s in list if s in vs)
CountIn(list, vs) == Cardinality({k \in 1..Len(list) : list[k] \in vs})

is_valid_move_mut_dual(b, sz, position) ==
    /\ 0 <= position
    /\ position < NumCells(sz)
    /\ b[position] \in {None, "B"}

is_valid_move(b, sz, position) ==
    /\ 0 <= position
    /\ position < NumCells(sz)
    /\ b[position] = None

make_move_mut_nocheck(b, sz, position, symbol) ==
    IF 0 <= position /\ position < NumCells(sz)
    THEN [board |-> [b EXCEPT ![position] = symbol], ret |-> "True"]
    ELSE [board |-> b, ret |-> "False"]

make_move_mut_overwrite(b, sz, position, symbol) ==
    IF 0 <= position /\ position < NumCells(sz) /\ b[position] \notin {"X", "O"}
    THEN [board |-> [b EXCEPT ![position] = symbol], ret |-> "True"]
    ELSE [board |-> b, ret |-> "False"]

\* make_move that takes the position as counted from 1; index -1 is the last
\* cell of a Python list
make_move_mut_fromone(b, sz, position, symbol) ==
    IF is_valid_move(b, sz, position)
    THEN [board |-> [b EXCEPT ![(position - 1) % NumCells(sz)] = symbol], ret |-> "True"]
    ELSE [board |-> b, ret |-> "False"]


\* returns the new board and the boolean the method returns
make_move(b, sz, position, symbol) ==
    IF is_valid_move(b, sz, position)
    THEN [board |-> [b EXCEPT ![position] = symbol], ret |-> "True"]
    ELSE [board |-> b, ret |-> "False"]

\* ascending list of the empty indices
RECURSIVE AscendingSeq(_)
AscendingSeq(S) ==
    IF S = {} THEN <<>>
    ELSE LET m == CHOOSE x \in S : \A y \in S : x <= y
         IN <<m>> \o AscendingSeq(S \ {m})

get_available_positions_mut_dual(b, sz) ==
    AscendingSeq({p \in Positions(sz) : b[p] \in {None, "B"}})

get_available_positions(b, sz) == AscendingSeq({p \in Positions(sz) : b[p] = None})

RECURSIVE check_winner_from(_, _, _)
check_winner_from(b, sz, i) ==
    LET combos == winning_combinations(sz) IN
    IF i > Len(combos) THEN None
    ELSE LET combo == combos[i]
             symbols == SymbolsOf(b, combo)
         IN IF sz = 3
            THEN IF /\ b[combo[1]] # None
                    /\ b[combo[1]] = b[combo[2]]
                    /\ b[combo[2]] = b[combo[3]]
                 THEN b[combo[1]]
                 ELSE check_winner_from(b, sz, i + 1)
            ELSE IF CountIn(symbols, {None}) > 0
                 THEN check_winner_from(b, sz, i + 1)
                 ELSE IF /\ CountIn(symbols, {"X", "B"}) = Len(symbols)
                         /\ CountIn(symbols, {"X"}) > 0
                      THEN "X"
                      ELSE IF /\ CountIn(symbols, {"O", "B"}) = Len(symbols)
                              /\ CountIn(symbols, {"O"}) > 0
                           THEN "O"
                           ELSE check_winner_from(b, sz, i + 1)

check_winner_mut_nowitness(b, sz) ==
    LET combos == winning_combinations(sz)
        full(S) == {i \in 1..Len(combos) :
                       CountIn(SymbolsOf(b, combos[i]), S) = Len(combos[i])}
    IN
    IF full({"X", "B"}) # {} THEN "X"
    ELSE IF full({"O", "B"}) # {} THEN "O" ELSE None

check_winner_mut_equal(b, sz) ==
    LET combos == winning_combinations(sz)
        same(S) == {i \in 1..Len(combos) :
                       \A k \in 1..Len(combos[i]) : b[combos[i][k]] = S}
    IN
    IF same("X") # {} THEN "X"
    ELSE IF same("O") # {} THEN "O" ELSE None

\* check_winner whose O branch returns 'X' like the branch above it
check_winner_mut_paste(b, sz) ==
    LET combos == winning_combinations(sz)
        won == {i \in 1..Len(combos) :
                   LET symbols == SymbolsOf(b, combos[i]) IN
                   IF sz = 3
                   THEN CountIn(symbols, {"X"}) = 3 \/ CountIn(symbols, {"O"}) = 3
                   ELSE \/ /\ CountIn(symbols, {"X", "B"}) = 4
                           /\ CountIn(symbols, {"X"}) > 0
                        \/ /\ CountIn(symbols, {"O", "B"}) = 4
                           /\ CountIn(symbols, {"O"}) > 0}
    IN
    IF won = {} THEN None
    ELSE IF sz = 3 THEN b[combos[CHOOSE i \in won : \A j \in won : i <= j][1]]
    ELSE "X"


\* check_winner that reports no winner on a full board
check_winner_mut_fullfirst(b, sz) ==
    IF \A p \in Positions(sz) : b[p] # None THEN None ELSE check_winner_from(b, sz, 1)


check_winner(b, sz) == check_winner_from(b, sz, 1)

is_full_mut_pieces(b, sz) == \A p \in Positions(sz) : b[p] \in {"X", "O"}

is_full(b, sz) == \A p \in Positions(sz) : b[p] # None

\* is_game_over that forgets the winner
is_game_over_mut_fullonly(b, sz) == is_full(b, sz)


is_game_over(b, sz) == check_winner(b, sz) # None \/ is_full(b, sz)

assign_dual_cells_mut_replace(b, sz, k, pool) ==
    IF k > 0
    THEN {[board |-> [p \in Positions(sz) |-> IF p \in D THEN "B" ELSE b[p]],
           dual_cell_positions |-> D] :
              D \in {D \in SUBSET pool : 1 <= Cardinality(D) /\ Cardinality(D) <= k}}
    ELSE {[board |-> b, dual_cell_positions |-> {}]}

\* Board.assign_dual_cells: the boards random.sample can produce, the
\* sampled positions drawn from pool
assign_dual_cells(b, sz, k, pool) ==
    IF k > 0
    THEN {[board |-> [p \in Positions(sz) |-> IF p \in D THEN "B" ELSE b[p]],
           dual_cell_positions |-> D] : D \in {D \in SUBSET pool : Cardinality(D) = k}}
    ELSE {[board |-> b, dual_cell_positions |-> {}]}

(***************************************************************************)
(* TicTacAgent: features                                                   *)
(***************************************************************************)
Opponent(symbol) == IF symbol = "X" THEN "O" ELSE "X"

\* the test both _can_win_this_turn and win_now apply to one line
LineReady(b, sz, combo, symbol) ==
    LET symbols == SymbolsOf(b, combo) IN
    IF sz = 3
    THEN CountIn(symbols, {symbol}) = 2 /\ CountIn(symbols, {None}) = 1
    ELSE CountIn(symbols, {symbol, "B"}) = 3 /\ CountIn(symbols, {None}) = 1

_can_win_this_turn_mut_nodual(b, sz, symbol) ==
    \E i \in 1..Len(winning_combinations(sz)) :
        LET symbols == SymbolsOf(b, winning_combinations(sz)[i]) IN
        /\ CountIn(symbols, {symbol}) = sz - 1
        /\ CountIn(symbols, {None}) = 1

_can_win_this_turn(b, sz, symbol) ==
    \E i \in 1..Len(winning_combinations(sz)) :
        LineReady(b, sz, winning_combinations(sz)[i], symbol)

_must_block_this_turn(b, sz, symbol) ==
    \E i \in 1..Len(winning_combinations(sz)) :
        LineReady(b, sz, winning_combinations(sz)[i], Opponent(symbol))

middle_zone(sz) == IF sz = 3 THEN <<4>> ELSE <<5, 6, 9, 10>>
corners(sz)     == IF sz = 3 THEN <<0, 2, 6, 8>> ELSE <<0, 3, 12, 15>>
edge_mids(sz)   == IF sz = 3 THEN <<1, 3, 5, 7>> ELSE <<1, 2, 4, 7, 8, 11, 13, 14>>

\* sum(1 for pos in zone if board.board[pos] in vs)
ZoneCount(b, zone, vs) == Cardinality({k \in 1..Len(zone) : b[zone[k]] \in vs})

_qty_middle_zone_available(b, sz) == ZoneCount(b, middle_zone(sz), {None})
_qty_middle_zone_owned(b, sz, symbol) == ZoneCount(b, middle_zone(sz), {symbol})
_center_available(b) == b[4] = None
_center_owned(b, symbol) == b[4] = symbol
_qty_corners_available(b, sz) == ZoneCount(b, corners(sz), {None})
\* a count over an edge_mids list that lacks its last position
_qty_edge_mids_available_mut_short(b, sz) ==
    ZoneCount(b, SubSeq(edge_mids(sz), 1, Len(edge_mids(sz)) - 1), {None})


_qty_edge_mids_available(b, sz) == ZoneCount(b, edge_mids(sz), {None})

_total_pieces_placed_mut_notnone(b, sz) ==
    Cardinality({p \in Positions(sz) : b[p] # None})

_total_pieces_placed(b, sz) ==
    IF sz = 3
    THEN Cardinality({p \in Positions(sz) : b[p] # None})
    ELSE Cardinality({p \in Positions(sz) : b[p] \in {"X", "O"}})

\* the feature dict
assess_game_state(b, sz, symbol) ==
    IF sz = 3
    THEN [can_win_this_turn |-> _can_win_this_turn(b, sz, symbol),
          must_block_this_turn |-> _must_block_this_turn(b, sz, symbol),
          center_available |-> _center_available(b),
          center_owned |-> _center_owned(b, symbol),
          qty_corners_available |-> _qty_corners_available(b, sz),
          qty_edge_mids_available |-> _qty_edge_mids_available(b, sz),
          total_pieces_placed |-> _total_pieces_placed(b, sz)]
    ELSE [can_win_this_turn |-> _can_win_this_turn(b, sz, symbol),
          must_block_this_turn |-> _must_block_this_turn(b, sz, symbol),
          qty_middle_zone_available |-> _qty_middle_zone_available(b, sz),
          qty_middle_zone_owned |-> _qty_middle_zone_owned(b, sz, symbol),
          qty_corners_available |-> _qty_corners_available(b, sz),
          qty_edge_mids_available |-> _qty_edge_mids_available(b, sz),
          total_pieces_placed |-> _total_pieces_placed(b, sz)]

(***************************************************************************)
(* TicTacAgent: actions                                                    *)
(***************************************************************************)
\* for pos in combo: if board.board[pos] is None: return pos
RECURSIVE FirstEmpty(_, _, _)
FirstEmpty(b, combo, k) ==
    IF k > Len(combo) THEN NonePos
    ELSE IF b[combo[k]] = None THEN combo[k] ELSE FirstEmpty(b, combo, k + 1)

\* the scan of win_now, and of block_opponent with the opponent's symbol
RECURSIVE ScanLines(_, _, _, _)
ScanLines(b, sz, symbol, i) ==
    LET combos == winning_combinations(sz) IN
    IF i > Len(combos) THEN NonePos
    ELSE IF LineReady(b, sz, combos[i], symbol)
         THEN FirstEmpty(b, combos[i], 1)
         ELSE ScanLines(b, sz, symbol, i + 1)

\* a scan that keeps the last ready line instead of returning at the first
RECURSIVE ScanLinesLast(_, _, _, _)
ScanLinesLast(b, sz, symbol, i) ==
    IF i < 1 THEN NonePos
    ELSE IF LineReady(b, sz, winning_combinations(sz)[i], symbol)
         THEN FirstEmpty(b, winning_combinations(sz)[i], 1)
         ELSE ScanLinesLast(b, sz, symbol, i - 1)

win_now_mut_last(b, sz, symbol) ==
    ScanLinesLast(b, sz, symbol, Len(winning_combinations(sz)))

win_now(b, sz, symbol) == ScanLines(b, sz, symbol, 1)

block_opponent(b, sz, symbol) == ScanLines(b, sz, Opponent(symbol), 1)

\* [pos for pos in zone if board.board[pos] is None]
RECURSIVE AvailableIn(_, _, _)
AvailableIn(b, zone, k) ==
    IF k > Len(zone) THEN <<>>
    ELSE (IF b[zone[k]] = None THEN <<zone[k]>> ELSE <<>>) \o AvailableIn(b, zone, k + 1)

\* take_center, take_edge_mid, take_corner and take_random: the list the
\* method draws its position from; the method returns None iff it is empty
take_center_mut_dual(b, sz) ==
    SelectSeq(middle_zone(sz), LAMBDA pos : b[pos] \in {None, "B"})

take_center(b, sz) == AvailableIn(b, middle_zone(sz), 1)
take_edge_mid(b, sz) == AvailableIn(b, edge_mids(sz), 1)
take_corner(b, sz) == AvailableIn(b, corners(sz), 1)
take_random(b, sz) == get_available_positions(b, sz)

ActionNames == <<"win_now", "block_opponent", "take_center", "take_edge_mid",
                 "take_corner", "take_random">>

\* is "action_map[name](board) is not None"
ActionFeasible(name, b, sz, symbol) ==
    CASE name = "win_now" -> win_now(b, sz, symbol) # NonePos
      [] name = "block_opponent" -> block_opponent(b, sz, symbol) # NonePos
      [] name = "take_center" -> take_center(b, sz) # <<>>
      [] name = "take_edge_mid" -> take_edge_mid(b, sz) # <<>>
      [] name = "take_corner" -> take_corner(b, sz) # <<>>
      [] name = "take_random" -> take_random(b, sz) # <<>>

\* "if action_map[name](board):" where the method returns its first candidate
get_valid_actions_mut_truthy(b, sz, symbol) ==
    LET first(name) ==
            CASE name = "win_now" -> win_now(b, sz, symbol)
              [] name = "block_opponent" -> block_opponent(b, sz, symbol)
              [] name = "take_center" -> Head(take_center(b, sz))
              [] name = "take_edge_mid" -> Head(take_edge_mid(b, sz))
              [] name = "take_corner" -> Head(take_corner(b, sz))
              [] name = "take_random" -> Head(take_random(b, sz))
    IN SelectSeq(ActionNames, LAMBDA name :
                    ActionFeasible(name, b, sz, symbol) /\ first(name) # 0)

get_valid_actions(b, sz, symbol) ==
    SelectSeq(ActionNames, LAMBDA name : ActionFeasible(name, b, sz, symbol))

(***************************************************************************)
(* Values of the variables an object's driver does not use                 *)
(***************************************************************************)
NoPlayers == <<>>
NoTable == <<>>
NoLog == <<>>

Filled(b, sz) == Cardinality({p \in Positions(sz) : b[p] # None})

(***************************************************************************)
(* SpecBoard: a Board is constructed, assign_dual_cells runs once (4x4),   *)
(* then make_move is called with any position and symbol                   *)
(***************************************************************************)
Window(sz) ==
    IF sz = 3 THEN Positions(3) ELSE Window4

MoveInputs(sz) == Window(sz) \cup {-1, NumCells(sz)}

InitBoard ==
    /\ size \in {3, 4}
    /\ board = EmptyBoard(size)
    /\ num_dual_cells \in (IF size = 4 THEN 0..MaxDualBoard ELSE {0})
    /\ dual_cell_positions = {}
    /\ ret = None
    /\ pc = IF size = 4 THEN "constructed" ELSE "assigned"
    /\ current_player_index = 0
    /\ players = NoPlayers
    /\ metrics = NoneOpt
    /\ td_updates = 0
    /\ table = NoTable
    /\ alpha = 0
    /\ gamma = 0
    /\ epsilon = 0
    /\ turnNo = 0
    /\ file = NoneOpt
    /\ log = NoLog

BoardAssignDualCells ==
    /\ pc = "constructed"
    /\ \E r \in assign_dual_cells(board, size, num_dual_cells, Window(size)) :
          /\ board' = r.board
          /\ dual_cell_positions' = r.dual_cell_positions
    /\ pc' = "assigned"
    /\ UNCHANGED <<size, num_dual_cells, ret, gameVars, qVars, file, log>>

BoardMakeMove(position, symbol) ==
    /\ pc = "assigned"
    /\ is_valid_move(board, size, position) => Filled(board, size) < MaxFilled
    /\ LET r == make_move(board, size, position, symbol) IN
          /\ board' = r.board
          /\ ret' = r.ret
    /\ UNCHANGED <<size, num_dual_cells, dual_cell_positions, pc, gameVars, qVars, file, log>>

NextBoard ==
    \/ BoardAssignDualCells
    \/ \E position \in MoveInputs(size), symbol \in Symbols : BoardMakeMove(position, symbol)

SpecBoard == InitBoard /\ [][NextBoard]_vars

(***************************************************************************)
(* QTable                                                                  *)
(***************************************************************************)
\* the product of a hyperparameter (a fraction of HDen) and a value, rounded
\* down to the value grid
Times(h, v) == (h * v) \div HDen

\* 4q_table.py
state_to_tuple(state) ==
    <<state.can_win_this_turn, state.must_block_this_turn,
      state.qty_middle_zone_available, state.qty_middle_zone_owned,
      state.qty_corners_available, state.qty_edge_mids_available,
      state.total_pieces_placed>>

\* the 3x3 table's key, in the order metrics.py documents; the 3x3 game's
\* q_table.py is not among the sources, its table is taken to work as
\* 4q_table.py does on this key
state_to_tuple_3x3(state) ==
    <<state.can_win_this_turn, state.must_block_this_turn,
      state.center_available, state.center_owned,
      state.qty_corners_available, state.qty_edge_mids_available,
      state.total_pieces_placed>>

KeyOf(state, action) ==
    <<IF "center_available" \in DOMAIN state
      THEN state_to_tuple_3x3(state) ELSE state_to_tuple(state), action>>

get_q_value(t, state, action) ==
    IF KeyOf(state, action) \in DOMAIN t THEN t[KeyOf(state, action)] ELSE 0

\* set_q_value that keeps the table sparse: a value of 0.0 is not stored
\* a lookup by self.table.setdefault(key, 0.0)
get_q_value_call_mut_setdefault(t, state, action) ==
    [table |-> [k \in DOMAIN t \cup {KeyOf(state, action)} |->
                   IF k \in DOMAIN t THEN t[k] ELSE 0],
     ret |-> get_q_value(t, state, action)]

\* a call of get_q_value: "return self.table.get(key, 0.0)", the table after
\* the call and the value returned
get_q_value_call(t, state, action) ==
    [table |-> t, ret |-> get_q_value(t, state, action)]

\* the table after the get_q_value calls a method makes for the actions of a
\* list, in order
RECURSIVE TableAfterLookups(_, _, _)
TableAfterLookups(t, state, actions) ==
    IF Len(actions) = 0 THEN t
    ELSE TableAfterLookups(get_q_value_call(t, state, actions[1]).table, state,
                           Tail(actions))


set_q_value_mut_sparse(t, state, action, value) ==
    IF value = 0 THEN t
    ELSE [k \in DOMAIN t \cup {KeyOf(state, action)} |->
             IF k = KeyOf(state, action) THEN value ELSE t[k]]


set_q_value(t, state, action, value) ==
    [k \in DOMAIN t \cup {KeyOf(state, action)} |->
        IF k = KeyOf(state, action) THEN value ELSE t[k]]

\* max(...) of a non-empty list of values
RECURSIVE MaxOfList(_)
MaxOfList(list) ==
    IF Len(list) = 1 THEN list[1]
    ELSE Max(list[1], MaxOfList(Tail(list)))

get_max_q_value(t, state, valid_actions) ==
    IF Len(valid_actions) = 0 THEN 0
    ELSE MaxOfList([k \in 1..Len(valid_actions) |->
                        get_q_value(t, state, valid_actions[k])])

\* "best_actions = [action for action, q_val in q_values]"
get_best_action_mut_nofilter(t, state, valid_actions) == valid_actions

\* the actions get_best_action draws its result from (valid_actions non-empty)
get_best_action(t, state, valid_actions) ==
    LET max_q == get_max_q_value(t, state, valid_actions)
    IN SelectSeq(valid_actions, LAMBDA a : get_q_value(t, state, a) = max_q)

update_q_value_mut_nogamma(t, al, ga, state, action, reward, next_state, next_valid_actions) ==
    LET current_q == get_q_value(t, state, action)
        td_target ==
            IF IsNone(next_state) \/ IsNone(next_valid_actions)
            THEN reward * QScale
            ELSE reward * QScale
                 + get_max_q_value(t, ValueOf(next_state), ValueOf(next_valid_actions))
        td_error == td_target - current_q
        new_q == current_q + Times(al, td_error)
    IN set_q_value(t, state, action, new_q)

\* the table after the update; reward is -1, 0 or 1
\* "new_q = current_q + self.alpha * td_target"
update_q_value_mut_notderror(t, al, ga, state, action, reward, next_state, next_valid_actions) ==
    LET current_q == get_q_value(t, state, action)
        td_target ==
            IF IsNone(next_state) \/ IsNone(next_valid_actions)
            THEN reward * QScale
            ELSE reward * QScale
                 + Times(ga, get_max_q_value(t, ValueOf(next_state),
                                             ValueOf(next_valid_actions)))
        new_q == current_q + Times(al, td_target)
    IN set_q_value(t, state, action, new_q)

\* "td_error = td_target + current_q"
update_q_value_mut_sign(t, al, ga, state, action, reward, next_state, next_valid_actions) ==
    LET current_q == get_q_value(t, state, action)
        td_target ==
            IF IsNone(next_state) \/ IsNone(next_valid_actions)
            THEN reward * QScale
            ELSE reward * QScale
                 + Times(ga, get_max_q_value(t, ValueOf(next_state),
                                             ValueOf(next_valid_actions)))
        td_error == td_target + current_q
        new_q == current_q + Times(al, td_error)
    IN set_q_value(t, state, action, new_q)


update_q_value(t, al, ga, state, action, reward, next_state, next_valid_actions) ==
    LET current_q == get_q_value(t, state, action)
        td_target ==
            IF IsNone(next_state) \/ IsNone(next_valid_actions)
            THEN reward * QScale
            ELSE reward * QScale
                 + Times(ga, get_max_q_value(t, ValueOf(next_state),
                                             ValueOf(next_valid_actions)))
        td_error == td_target - current_q
        new_q == current_q + Times(al, td_error)
    IN set_q_value(t, state, action, new_q)

(***************************************************************************)
(* SpecQ: a QTable is loaded with some content and hyperparameters, then   *)
(* one method is called on it                                              *)
(***************************************************************************)
\* two feature dicts of the 4x4 game: X before the first move, O after X
\* took cell 5
QState1 == assess_game_state(EmptyBoard(4), 4, "X")
QState2 == assess_game_state([EmptyBoard(4) EXCEPT ![5] = "X"], 4, "O")
QStates == {QState1, QState2}
QActions == {"take_center", "take_random"}

\* the keys a loaded table may hold and the values it may hold for them
QLoadedKeys == {KeyOf(QState1, "take_center"), KeyOf(QState2, "take_center"),
                KeyOf(QState2, "take_random")}
QLoadedValues == {0 - (QScale \div 2), QScale}
QLoadedTables ==
    UNION {[K -> QLoadedValues] : K \in SUBSET QLoadedKeys}

Rewards == {-1, 0, 1}
QNextStates == {NoneOpt, Some(QState2)}
QNextValid == {NoneOpt, Some(<<>>), Some(<<"take_center">>),
               Some(<<"take_center", "take_random">>)}

InitQ ==
    /\ size = 4
    /\ board = EmptyBoard(4)
    /\ num_dual_cells = 0
    /\ dual_cell_positions = {}
    /\ ret = None
    /\ pc = "loaded"
    /\ current_player_index = 0
    /\ players = NoPlayers
    /\ metrics = NoneOpt
    /\ td_updates = 0
    /\ table \in QLoadedTables
    /\ alpha \in 0..HDen
    /\ gamma \in 0..HDen
    /\ epsilon \in 0..HDen
    /\ turnNo = 0
    /\ file = NoneOpt
    /\ log = NoLog

QUpdate(state, action, reward, next_state, next_valid_actions) ==
    /\ pc = "loaded"
    /\ table' = update_q_value(table, alpha, gamma, state, action, reward,
                               next_state, next_valid_actions)
    /\ log' = <<[op |-> "update_q_value", before |-> table, state |-> state,
                 action |-> action, reward |-> reward, next_state |-> next_state,
                 next_valid_actions |-> next_valid_actions]>>
    /\ pc' = "called"
    /\ UNCHANGED <<boardVars, gameVars, alpha, gamma, epsilon, file>>


(***************************************************************************)
(* Claims about the Board and the line scans, checked under SpecBoard      *)
(***************************************************************************)
\* the 4x4 win lines written out: rows, then columns, then the diagonals
Lines4 == << <<0, 1, 2, 3>>, <<4, 5, 6, 7>>, <<8, 9, 10, 11>>, <<12, 13, 14, 15>>,
             <<0, 4, 8, 12>>, <<1, 5, 9, 13>>, <<2, 6, 10, 14>>, <<3, 7, 11, 15>>,
             <<0, 5, 10, 15>>, <<3, 6, 9, 12>> >>
Lines3 == << <<0, 1, 2>>, <<3, 4, 5>>, <<6, 7, 8>>, <<0, 3, 6>>, <<1, 4, 7>>,
             <<2, 5, 8>>, <<0, 4, 8>>, <<2, 4, 6>> >>
LinesOf(sz) == IF sz = 3 THEN Lines3 ELSE Lines4

CellsOf(line) == {line[k] : k \in 1..Len(line)}

\* the line is satisfied for symbol S: every cell Owned(S) or Wildcard, one Owned(S)
LineWonBy(b, line, S) ==
    /\ \A p \in CellsOf(line) : b[p] \in {S, "B"}
    /\ \E p \in CellsOf(line) : b[p] = S

\* the line has exactly one Empty cell and all its other cells are Owned(S) or Wildcard
LineOneShort(b, line, S) ==
    /\ Cardinality({p \in CellsOf(line) : b[p] = None}) = 1
    /\ \A p \in CellsOf(line) : b[p] \in {None, S, "B"}

\* the position the claimed scan returns
ExpectedScan(b, sz, S) ==
    LET ready == {i \in 1..Len(LinesOf(sz)) : LineOneShort(b, LinesOf(sz)[i], S)} IN
    IF ready = {} THEN NonePos
    ELSE LET first == CHOOSE i \in ready : \A j \in ready : i <= j
         IN CHOOSE p \in CellsOf(LinesOf(sz)[first]) : b[p] = None

\* C3: on every 4x4 board check_winner returns a symbol S only if a win line
\* holds only S and wildcards with at least one S, and returns None exactly
\* when no line does so for X or for O (an all-wildcard line and a line
\* mixing X and O are no win)
C3_WildcardWinRule ==
    size = 4 =>
        LET w == check_winner(board, 4) IN
        /\ w \in {None, "X", "O"}
        /\ w # None => \E i \in 1..Len(Lines4) : LineWonBy(board, Lines4[i], w)
        /\ w = None <=> \A i \in 1..Len(Lines4), S \in Symbols :
                            ~LineWonBy(board, Lines4[i], S)

\* a line holding a wildcard and otherwise only O is reported as O's win
C3_Witness ==
    /\ size = 4
    /\ check_winner(board, 4) = "O"
    /\ \E i \in 1..Len(Lines4) :
          /\ LineWonBy(board, Lines4[i], "O")
          /\ \E p \in CellsOf(Lines4[i]) : board[p] = "B"

\* C6: is_valid_move(pos) is true iff pos is in range and the cell is Empty;
\* right after assign_dual_cells it is false on every wildcard position and
\* true on every other position
C6_ValidMove ==
    /\ \A pos \in -1..NumCells(size) :
          is_valid_move(board, size, pos) <=> (pos \in Positions(size) /\ board[pos] = None)
    /\ (size = 4 /\ pc = "assigned" /\ ret = None) =>
          /\ Cardinality(dual_cell_positions) = num_dual_cells
          /\ \A pos \in Positions(4) :
                is_valid_move(board, 4, pos) <=> pos \notin dual_cell_positions

\* assign_dual_cells has just placed two wildcards
C6_Witness ==
    /\ size = 4
    /\ pc = "assigned"
    /\ Cardinality(dual_cell_positions) = 2
    /\ \A pos \in dual_cell_positions : board[pos] = "B"

\* C7: make_move on a target that is out of range, owned or a wildcard
\* returns False and leaves every cell unchanged; on a valid target it sets
\* exactly that cell to the symbol and returns True
C7_MakeMove ==
    \A position \in MoveInputs(size), symbol \in Symbols :
        LET r == make_move(board, size, position, symbol) IN
        IF position \in Positions(size) /\ board[position] = None
        THEN /\ r.ret = "True"
             /\ r.board[position] = symbol
             /\ \A q \in Positions(size) \ {position} : r.board[q] = board[q]
        ELSE /\ r.ret = "False"
             /\ \A q \in Positions(size) : r.board[q] = board[q]

\* a move was refused on a board whose only non-empty cells are wildcards
C7_Witness ==
    /\ ret = "False"
    /\ dual_cell_positions # {}
    /\ \A p \in Positions(size) : board[p] \in {None, "B"}

\* C8: win_now returns a position iff some line is one Empty cell short of
\* holding only the symbol and wildcards, and then it is the Empty cell of
\* the first such line in the order rows, columns, diagonals; block_opponent
\* is the same scan for the opponent's symbol
C8_WinNowScan ==
    \A S \in Symbols :
        /\ win_now(board, size, S) = ExpectedScan(board, size, S)
        /\ block_opponent(board, size, S) = ExpectedScan(board, size, Opponent(S))
        /\ win_now(board, size, S) # NonePos <=>
              \E i \in 1..Len(LinesOf(size)) : LineOneShort(board, LinesOf(size)[i], S)

\* X can complete a 4x4 line that holds a wildcard
C8_Witness ==
    /\ size = 4
    /\ win_now(board, 4, "X") # NonePos
    /\ \E i \in 1..Len(Lines4) :
          /\ LineOneShort(board, Lines4[i], "X")
          /\ \E p \in CellsOf(Lines4[i]) : board[p] = "B"
          /\ \E p \in CellsOf(Lines4[i]) : board[p] = "X"

\* C9: on a board nobody has won, if win_now returns p for a symbol then
\* make_move(p, symbol) succeeds and check_winner then returns that symbol
C9_WinNowWins ==
    \A S \in Symbols :
        (check_winner(board, size) = None /\ win_now(board, size, S) # NonePos) =>
            LET r == make_move(board, size, win_now(board, size, S), S) IN
            /\ r.ret = "True"
            /\ check_winner(r.board, size) = S

\* the board's only piece completed a line of three wildcards and won
C9_Witness ==
    /\ size = 4
    /\ ret = "True"
    /\ \E q \in Positions(4) :
          /\ board[q] \in Symbols
          /\ \A p \in Positions(4) \ {q} : board[p] \in {None, "B"}
          /\ LET pre == [board EXCEPT ![q] = None] IN
                /\ check_winner(pre, 4) = None
                /\ win_now(pre, 4, board[q]) = q
          /\ check_winner(board, 4) = board[q]

(***************************************************************************)
(* Players and the Game                                                    *)
(***************************************************************************)
MaxPick(sz) == IF sz = 3 THEN MaxPick3 ELSE MaxPick4

\* a use of the random source that does not follow it
Draw_mut_unseeded(list, i) == {list[j] : j \in 1..Len(list)}

\* random.choice(list) when the random source yields its i-th outcome
Draw(list, i) == {list[((i - 1) % Len(list)) + 1]}

\* random.choice(list), the first n outcomes of the random source followed
Choice(list, n) == UNION {Draw(list, i) : i \in 1..Min(Len(list), n)}

\* The class object a name is bound to.  game.py binds TicTacAgent with
\* "from agent import TicTacAgent", the class main.py instantiates.  4game.py
\* binds it to the class of a module object that load_module executes anew
\* inside the call, which is never the class object of an existing player.
MainTicTacAgent == "TicTacAgent of the caller's agent module"
GameTicTacAgent(sz) ==
    IF sz = 3 THEN MainTicTacAgent ELSE "TicTacAgent of a module loaded in the call"

\* isinstance(player, TicTacAgent) as Game evaluates it
isinstance(player, sz) == player.cls = GameTicTacAgent(sz)

\* the dict TicTacAgent.__init__ binds current_state to
InitialState(sz) ==
    IF sz = 3
    THEN [can_win_this_turn |-> FALSE, must_block_this_turn |-> FALSE,
          center_available |-> FALSE, center_owned |-> FALSE,
          qty_corners_available |-> 0, qty_edge_mids_available |-> 0,
          total_pieces_placed |-> 0]
    ELSE [can_win_this_turn |-> FALSE, must_block_this_turn |-> FALSE,
          qty_middle_zone_available |-> 0, qty_middle_zone_owned |-> 0,
          qty_corners_available |-> 0, qty_edge_mids_available |-> 0,
          total_pieces_placed |-> 0]

\* HumanPlayer(symbol, name); it has no current_state
HumanPlayer(symbol) ==
    [kind |-> "HumanPlayer", cls |-> "HumanPlayer", symbol |-> symbol,
     q_table |-> FALSE, learning_enabled |-> FALSE, current_state |-> NoneOpt,
     last_state |-> NoneOpt, last_action |-> None, last_turn |-> 0]

\* TicTacAgent(symbol, name, q_table, learning_enabled); q_table says whether
\* the agent references the table; last_turn is the turn that set last_state
TicTacAgent(symbol, q_table, learning_enabled, sz) ==
    [kind |-> "TicTacAgent", cls |-> MainTicTacAgent, symbol |-> symbol,
     q_table |-> q_table, learning_enabled |-> learning_enabled,
     current_state |-> Some(InitialState(sz)),
     last_state |-> NoneOpt, last_action |-> None, last_turn |-> 0]

\* Game.__init__: agents without a table get the game's
GameInit(player1, player2, has_q_table, sz) ==
    [i \in 0..1 |->
        LET player == IF i = 0 THEN player1 ELSE player2 IN
        IF isinstance(player, sz) /\ ~player.q_table
        THEN [player EXCEPT !.q_table = has_q_table]
        ELSE player]

reset_episode(player) ==
    [player EXCEPT !.last_state = NoneOpt, !.last_action = None, !.last_turn = 0]

\* "if self.q_table"
Learns_mut_table(player) == player.q_table


\* "if self.q_table and self.learning_enabled"
Learns(player) == player.q_table /\ player.learning_enabled

\* a call that returns the dict of the call before it and then stores the new
assess_game_state_call_mut_stale(player, b, sz) ==
    [player |-> [player EXCEPT !.current_state =
                    Some(assess_game_state(b, sz, player.symbol))],
     state |-> ValueOf(player.current_state),
     board |-> b]

\* a call player.assess_game_state(board): the dict is bound to
\* self.current_state and returned; the call leaves the agent and the board
assess_game_state_call(player, b, sz) ==
    [player |-> [player EXCEPT !.current_state =
                    Some(assess_game_state(b, sz, player.symbol))],
     state |-> assess_game_state(b, sz, player.symbol),
     board |-> b]

\* "random.random() > self.epsilon"
Explores_mut_inverted(eps) == {e \in BOOLEAN : IF e THEN eps < HDen ELSE eps > 0}

\* the outcomes of "random.random() < epsilon": it can hold iff epsilon > 0
\* and fail iff epsilon < 1
Explores(eps) == {e \in BOOLEAN : IF e THEN eps > 0 ELSE eps < HDen}

\* epsilon_greedy_select on a non-empty valid_actions when the random source
\* yields explore for the test and its i-th outcome for the choice:
\* random.choice(valid_actions), or get_best_action's random.choice(best_actions)
epsilon_greedy_select_drawn(t, eps, state, valid_actions, explore, i) ==
    IF explore THEN Draw(valid_actions, i)
    ELSE Draw(get_best_action(t, state, valid_actions), i)

\* the results epsilon_greedy_select can return for a non-empty valid_actions,
\* the first n outcomes of each random.choice followed
epsilon_greedy_select(t, eps, state, valid_actions, n) ==
    UNION {epsilon_greedy_select_drawn(t, eps, state, valid_actions, e, i) :
               e \in Explores(eps), i \in 1..n}

\* action_map[action_name](board) when the random source yields its i-th outcome
ActionPosition(action_name, b, sz, symbol, i) ==
    CASE action_name = "win_now" -> {win_now(b, sz, symbol)}
      [] action_name = "block_opponent" -> {block_opponent(b, sz, symbol)}
      [] action_name = "take_center" -> Draw(take_center(b, sz), i)
      [] action_name = "take_edge_mid" -> Draw(take_edge_mid(b, sz), i)
      [] action_name = "take_corner" -> Draw(take_corner(b, sz), i)
      [] action_name = "take_random" -> Draw(take_random(b, sz), i)

\* the positions action_map[action_name](board) can return
ActionPositions(action_name, b, sz, symbol) ==
    UNION {ActionPosition(action_name, b, sz, symbol, i) : i \in 1..MaxPick(sz)}

\* HumanPlayer.get_move: the loop returns the first input that is a valid move
HumanMoves(b, sz) == Choice(get_available_positions(b, sz), MaxPick(sz))

\* what a turn draws: the outcome of the exploration test, of the choice of
\* the action and of the choice of the position (a human's input)
Draws(eps, sz) ==
    [explore : Explores(eps), a : 1..MaxPick(sz), p : 1..MaxPick(sz)]

\* get_move: the outcomes [raised, action, position] of a call that draws d
get_move_drawn(player, t, eps, b, sz, d) ==
    IF player.kind = "HumanPlayer"
    THEN {[raised |-> None, action |-> None, position |-> pos] :
             pos \in Draw(get_available_positions(b, sz), d.p)}
    ELSE IF Learns(player)
         THEN LET state == assess_game_state_call(player, b, sz).state
                  valid_actions == get_valid_actions(b, sz, player.symbol)
              IN IF Len(valid_actions) = 0
                 THEN {[raised |-> "ValueError", action |-> None, position |-> NonePos]}
                 ELSE UNION {{[raised |-> None, action |-> a, position |-> pos] :
                                 pos \in ActionPosition(a, b, sz, player.symbol, d.p)} :
                             a \in epsilon_greedy_select_drawn(t, eps, state, valid_actions,
                                                               d.explore, d.a)}
         ELSE IF Len(get_available_positions(b, sz)) = 0
              THEN {[raised |-> "IndexError", action |-> None, position |-> NonePos]}
              ELSE {[raised |-> None, action |-> None, position |-> pos] :
                       pos \in Draw(get_available_positions(b, sz), d.p)}

\* get_move: the outcomes [raised, action, position] of a call
get_move(player, t, eps, b, sz) ==
    UNION {get_move_drawn(player, t, eps, b, sz, d) : d \in Draws(eps, sz)}

\* the player after get_move returned move: an agent has assessed the board,
\* a learning agent stores the state it assessed and the action it chose
AfterGetMove(player, move, b, sz, turn) ==
    IF player.kind # "TicTacAgent" THEN player
    ELSE LET call == assess_game_state_call(player, b, sz) IN
         IF Learns(player)
         THEN [call.player EXCEPT !.last_state = Some(call.state),
                                  !.last_action = move.action,
                                  !.last_turn = turn]
         ELSE call.player

\* update_from_transition: the update_q_value calls it makes (none or one);
\* next_board is NoneOpt or Some(board)
update_from_transition(player, idx, reward, next_state, next_board, sz) ==
    IF ~player.q_table \/ ~player.learning_enabled THEN <<>>
    ELSE IF IsNone(player.last_state) \/ player.last_action = None THEN <<>>
    ELSE <<[player |-> idx,
            state |-> ValueOf(player.last_state),
            action |-> player.last_action,
            reward |-> reward,
            next_state |-> next_state,
            next_valid_actions |->
                IF ~IsNone(next_state) /\ ~IsNone(next_board)
                THEN Some(get_valid_actions(ValueOf(next_board), sz, player.symbol))
                ELSE NoneOpt,
            move_turn |-> player.last_turn]>>

\* the table after the update_q_value calls, in order
RECURSIVE ApplyUpdates(_, _, _, _)
ApplyUpdates(t, al, ga, calls) ==
    IF Len(calls) = 0 THEN t
    ELSE ApplyUpdates(update_q_value(t, al, ga, calls[1].state, calls[1].action,
                                     calls[1].reward, calls[1].next_state,
                                     calls[1].next_valid_actions),
                      al, ga, Tail(calls))

\* play_turn after get_move returned move: the board, the outcome and the
\* update_q_value calls of the mover and, at game over, of the opponent
play_turn(ps, cur, move, b, sz) ==
    LET current_player == ps[cur]
        made == make_move(b, sz, move.position, current_player.symbol)
        game_over == is_game_over(made.board, sz)
        winner == check_winner(made.board, sz)
        reward == IF game_over
                  THEN IF winner = current_player.symbol THEN 1
                       ELSE IF winner = None THEN 0 ELSE -1
                  ELSE 0
        assessed == IF ~game_over /\ isinstance(current_player, sz)
                    THEN Some(assess_game_state_call(current_player, made.board, sz))
                    ELSE NoneOpt
        next_state == IF IsNone(assessed) THEN NoneOpt ELSE Some(ValueOf(assessed).state)
        after == IF IsNone(assessed) THEN made.board ELSE ValueOf(assessed).board
        next_board == IF game_over THEN NoneOpt ELSE Some(after)
        own == IF isinstance(current_player, sz)
               THEN update_from_transition(current_player, cur, reward, next_state,
                                           next_board, sz)
               ELSE <<>>
        opponent == ps[1 - cur]
        opponent_reward == IF winner = current_player.symbol THEN -1
                           ELSE IF winner = None THEN 0 ELSE 1
        other == IF game_over /\ isinstance(opponent, sz)
                 THEN update_from_transition(opponent, 1 - cur, opponent_reward,
                                             NoneOpt, NoneOpt, sz)
                 ELSE <<>>
    IN [board |-> after, made |-> made.ret, game_over |-> game_over,
        winner |-> winner, reward |-> reward, updates |-> own \o other,
        players |-> IF IsNone(assessed) THEN ps
                    ELSE [ps EXCEPT ![cur] = ValueOf(assessed).player]]

(***************************************************************************)
(* LearningMetrics                                                         *)
(***************************************************************************)
\* LearningMetrics(): action_counts is a defaultdict(int), here the counts of
\* the actions recorded so far; an average Q-value is kept as the pair
\* <<sum of the values, number of values>>
LearningMetrics ==
    [action_counts |-> <<>>, can_win_best |-> <<>>, center_available_best |-> <<>>,
     must_block_best |-> <<>>, qtable_sizes |-> <<>>]

\* "self.action_counts[action] += 1"
record_action(m, action) ==
    [m EXCEPT !.action_counts =
        [a \in DOMAIN m.action_counts \cup {action} |->
            (IF a \in DOMAIN m.action_counts THEN m.action_counts[a] ELSE 0)
            + (IF a = action THEN 1 ELSE 0)]]

\* get_move of a learning agent: "if self.metrics: self.metrics.record_action(action_name)"
MetricsAfterGetMove(attached, player, move) ==
    IF ~IsNone(attached) /\ player.kind = "TicTacAgent" /\ Learns(player)
    THEN Some(record_action(ValueOf(attached), move.action))
    ELSE attached

RECURSIVE SumOver(_, _)
SumOver(t, keys) ==
    IF keys = {} THEN 0
    ELSE LET k == CHOOSE k \in keys : TRUE IN t[k] + SumOver(t, keys \ {k})

\* the (action, average) pairs _get_best_action_for_feature can return: the
\* actions whose average over the matching keys is largest (which of several
\* such max() returns depends on the order of the table's items), or
\* ('none', 0.0) when no key matches
_get_best_action_for_feature(t, feature_value, feature_index) ==
    LET matching == {k \in DOMAIN t : k[1][feature_index + 1] = feature_value}
        acts == {k[2] : k \in matching}
        of(a) == {k \in matching : k[2] = a}
        total(a) == SumOver(t, of(a))
        count(a) == Cardinality(of(a))
    IN IF acts = {} THEN {<<"none", <<0, 1>>>>}
       ELSE {<<a, <<total(a), count(a)>>>> :
                a \in {a \in acts :
                          \A b \in acts : total(b) * count(a) <= total(a) * count(b)}}

record_strategic_qvalues_mut_clear(m, t, game_number) ==
    {[metrics |-> [m EXCEPT !.can_win_best = Append(@, can_win_best),
                            !.center_available_best = Append(@, center_best),
                            !.must_block_best = Append(@, block_best)],
      table |-> [k \in DOMAIN t |-> 0]] :
        can_win_best \in _get_best_action_for_feature(t, TRUE, 0),
        center_best \in _get_best_action_for_feature(t, TRUE, 2),
        block_best \in _get_best_action_for_feature(t, TRUE, 1)}

\* record_strategic_qvalues(q_table, game_number): the collector and the
\* table object the call leaves
record_strategic_qvalues(m, t, game_number) ==
    {[metrics |-> [m EXCEPT !.can_win_best = Append(@, can_win_best),
                            !.center_available_best = Append(@, center_best),
                            !.must_block_best = Append(@, block_best)],
      table |-> t] :
        can_win_best \in _get_best_action_for_feature(t, TRUE, 0),
        center_best \in _get_best_action_for_feature(t, TRUE, 2),
        block_best \in _get_best_action_for_feature(t, TRUE, 1)}

record_qtable_size(m, sz) == [m EXCEPT !.qtable_sizes = Append(@, sz)]

reset_action_counts(m) == [m EXCEPT !.action_counts = <<>>]

\* QTable.get_table_size: len(self.table)
get_table_size(t) == Cardinality(DOMAIN t)

(***************************************************************************)
(* SpecQ, continued: selection, save and load                              *)
(***************************************************************************)
\* the valid_actions lists the selection is called with
QValidLists == {<<>>, <<"take_center">>, <<"take_random">>,
                <<"take_center", "take_random">>}

\* epsilon_greedy_select(state, valid_actions), any outcome of its
\* random.choice followed
QSelect(state, valid_actions) ==
    /\ pc = "loaded"
    /\ IF Len(valid_actions) = 0
       THEN log' = <<[op |-> "epsilon_greedy_select", state |-> state,
                      valid_actions |-> valid_actions, raised |-> "ValueError",
                      result |-> None]>>
       ELSE \E a \in epsilon_greedy_select(table, epsilon, state, valid_actions,
                                           Len(valid_actions)) :
                log' = <<[op |-> "epsilon_greedy_select", state |-> state,
                          valid_actions |-> valid_actions, raised |-> None,
                          result |-> a]>>
    /\ \E explore \in Explores(epsilon) :
           table' = IF explore \/ Len(valid_actions) = 0 THEN table
                    ELSE TableAfterLookups(table, state, valid_actions)
    /\ pc' = "selected"
    /\ UNCHANGED <<boardVars, gameVars, alpha, gamma, epsilon, file>>

get_best_action_call_mut_default(t, state, valid_actions, n) ==
    IF Len(valid_actions) = 0
    THEN {[raised |-> None, result |-> None]}
    ELSE {[raised |-> None, result |-> a] :
              a \in Choice(get_best_action(t, state, valid_actions), n)}

\* a call of get_best_action(state, valid_actions): ValueError on an empty
\* valid_actions, else what random.choice(best_actions) can return
get_best_action_call(t, state, valid_actions, n) ==
    IF Len(valid_actions) = 0
    THEN {[raised |-> "ValueError", result |-> None]}
    ELSE {[raised |-> None, result |-> a] :
              a \in Choice(get_best_action(t, state, valid_actions), n)}

\* get_best_action(state, valid_actions), any outcome of its random.choice
\* followed
QBest(state, valid_actions) ==
    /\ pc = "loaded"
    /\ \E outcome \in get_best_action_call(table, state, valid_actions,
                                           Len(valid_actions)) :
           log' = <<[op |-> "get_best_action", state |-> state,
                     valid_actions |-> valid_actions, raised |-> outcome.raised,
                     result |-> outcome.result]>>
    /\ table' = TableAfterLookups(table, state, valid_actions)
    /\ pc' = "best"
    /\ UNCHANGED <<boardVars, gameVars, alpha, gamma, epsilon, file>>

\* get_q_value(state, action)
QGet(state, action) ==
    /\ pc = "loaded"
    /\ \E call \in {get_q_value_call(table, state, action)} :
           /\ table' = call.table
           /\ log' = <<[op |-> "get_q_value", state |-> state, action |-> action,
                        ret |-> call.ret]>>
    /\ pc' = "got"
    /\ UNCHANGED <<boardVars, gameVars, alpha, gamma, epsilon, file>>

\* get_max_q_value(state, valid_actions)
QMax(state, valid_actions) ==
    /\ pc = "loaded"
    /\ table' = TableAfterLookups(table, state, valid_actions)
    /\ log' = <<[op |-> "get_max_q_value", state |-> state,
                 valid_actions |-> valid_actions,
                 ret |-> get_max_q_value(table, state, valid_actions)]>>
    /\ pc' = "max"
    /\ UNCHANGED <<boardVars, gameVars, alpha, gamma, epsilon, file>>

\* get_table_size(): "return len(self.table)"
QSize ==
    /\ pc = "loaded"
    /\ log' = <<[op |-> "get_table_size", ret |-> get_table_size(table)]>>
    /\ pc' = "sized"
    /\ UNCHANGED <<boardVars, gameVars, qVars, file>>


\* the (key, value) items of a dict, which is how pickle writes a dict
RECURSIVE ItemsOf(_)
ItemsOf(d) ==
    IF DOMAIN d = {} THEN <<>>
    ELSE LET k == CHOOSE k \in DOMAIN d : TRUE
         IN <<<<k, d[k]>>>> \o ItemsOf([j \in DOMAIN d \ {k} |-> d[j]])

\* the dict pickle rebuilds from written items
DictOf(items) ==
    [k \in {items[i][1] : i \in 1..Len(items)} |->
        LET i == CHOOSE i \in 1..Len(items) : items[i][1] = k IN items[i][2]]

\* pickle.dump of the dict save builds, or of one lacking some of its fields:
\* the items of the dict, the table among them as its own items
pickle_dump(data) ==
    ItemsOf([k \in DOMAIN data |->
                IF k = "table" THEN ItemsOf(data[k]) ELSE data[k]])

\* pickle.load
pickle_load(content) ==
    LET d == DictOf(content) IN
    [k \in DOMAIN d |-> IF k = "table" THEN DictOf(d[k]) ELSE d[k]]

\* QTable(alpha, gamma, epsilon)
QTable(al, ga, eps) == [table |-> NoTable, alpha |-> al, gamma |-> ga, epsilon |-> eps]

save_mut_defaults(store) ==
    pickle_dump([table |-> store.table, alpha |-> 0, gamma |-> HDen, epsilon |-> 0])

\* save: the content written to the file
save(store) ==
    pickle_dump([table |-> store.table, alpha |-> store.alpha,
                 gamma |-> store.gamma, epsilon |-> store.epsilon])

\* "cls(alpha=data.get('alpha', 0.1), ...); q_table.table = data.get('table', {})"
load_mut_get(content) ==
    LET data == pickle_load(content)
        get(k, default) == IF k \in DOMAIN data THEN data[k] ELSE default
    IN [raised |-> None,
        returned |-> Some([table |-> get("table", NoTable), alpha |-> get("alpha", 0),
                           gamma |-> get("gamma", HDen), epsilon |-> get("epsilon", 0)])]

\* load: the exception raised, or the store returned
load(content) ==
    LET data == pickle_load(content) IN
    IF {"alpha", "gamma", "epsilon"} \subseteq DOMAIN data
    THEN LET q_table == QTable(data["alpha"], data["gamma"], data["epsilon"]) IN
         IF "table" \in DOMAIN data
         THEN [raised |-> None, returned |-> Some([q_table EXCEPT !.table = data["table"]])]
         ELSE [raised |-> "KeyError", returned |-> NoneOpt]
    ELSE [raised |-> "KeyError", returned |-> NoneOpt]

\* the store the variables hold
Store == [table |-> table, alpha |-> alpha, gamma |-> gamma, epsilon |-> epsilon]

\* files that were written by something else: a record of a store, some of
\* its fields left out
QForeignRecord == [table |-> [k \in {KeyOf(QState1, "take_center")} |-> QScale],
                   alpha |-> 1, gamma |-> 1, epsilon |-> 1]
QForeignFiles ==
    {pickle_dump([k \in F |-> QForeignRecord[k]]) :
        F \in SUBSET {"table", "alpha", "gamma", "epsilon"}
              \ {{"table", "alpha", "gamma", "epsilon"}}}

\* q_table.save(filepath)
QSave ==
    /\ pc = "loaded"
    /\ file' = Some(save(Store))
    /\ log' = <<[op |-> "save"]>>
    /\ pc' = "saved"
    /\ UNCHANGED <<boardVars, gameVars, qVars>>

\* QTable.load(filepath) on the file save wrote or on a foreign file
QLoad(content) ==
    /\ pc \in {"loaded", "saved"}
    /\ \E r \in {load(content)} :
           log' = <<[op |-> "load", content |-> content, raised |-> r.raised,
                     returned |-> r.returned]>>
    /\ pc' = "reloaded"
    /\ UNCHANGED <<boardVars, gameVars, qVars, file>>

NextQ ==
    \/ QSave
    \/ \E content \in (IF IsNone(file) THEN {} ELSE {ValueOf(file)}) \cup QForeignFiles :
           QLoad(content)
    \/ \E state \in QStates, action \in QActions, reward \in Rewards,
          next_state \in QNextStates, next_valid_actions \in QNextValid :
           QUpdate(state, action, reward, next_state, next_valid_actions)
    \/ \E state \in QStates, valid_actions \in QValidLists :
           QSelect(state, valid_actions)
    \/ \E state \in QStates, valid_actions \in QValidLists :
           QBest(state, valid_actions)
    \/ \E state \in QStates, action \in QActions : QGet(state, action)
    \/ \E state \in QStates, valid_actions \in QValidLists :
           QMax(state, valid_actions)
    \/ QSize

SpecQ == InitQ /\ [][NextQ]_vars

(***************************************************************************)
(* Spec: one episode.  A Game is constructed over two players, play()      *)
(* places the wildcards and runs play_turn and switch_player until the     *)
(* game is over                                                            *)
(***************************************************************************)
\* the cells the episodes' random.sample draws the wildcards from
DualPool == {0, 5, 6, 15}

\* the cells a sample of k wildcards is drawn from: a sample larger than
\* DualPool, as the sample of all 16 cells, is drawn from all of range(16)
DualPoolFor(k) == IF k <= Cardinality(DualPool) THEN DualPool ELSE Positions(4)

\* the hyperparameters the episodes' table is constructed with
Hyper == {[alpha |-> 1, gamma |-> 1, epsilon |-> 1]}

\* <<player1, player2, whether Game is given a table>>: the training pair, a
\* human against a random agent, against a trained agent that does not learn,
\* against an agent that learns from the table Game hands it, and two random
\* agents
PlayerSetups(sz) ==
    {<<TicTacAgent("X", TRUE, TRUE, sz), TicTacAgent("O", TRUE, TRUE, sz), TRUE>>,
     <<HumanPlayer("X"), TicTacAgent("O", FALSE, FALSE, sz), FALSE>>,
     <<HumanPlayer("X"), TicTacAgent("O", TRUE, FALSE, sz), TRUE>>,
     <<HumanPlayer("X"), TicTacAgent("O", FALSE, TRUE, sz), TRUE>>,
     <<TicTacAgent("X", FALSE, FALSE, sz), TicTacAgent("O", FALSE, FALSE, sz), FALSE>>}

\* a board of an earlier game on which symbol was to move: X took the first
\* middle cell and O cell 0, and for O, X has also taken cell 1
EarlierBoard(sz, symbol) ==
    [p \in Positions(sz) |->
        IF p = middle_zone(sz)[1] THEN "X"
        ELSE IF p = 0 THEN "O"
        ELSE IF p = 1 /\ symbol = "O" THEN "X"
        ELSE None]

\* a player object that has played an earlier game: a learning agent still
\* holds the state and action its last get_move of that game stored;
\* last_turn -1 marks them as stored before this episode
Reused(player, sz) ==
    IF player.kind = "TicTacAgent" /\ Learns(player)
    THEN [player EXCEPT
             !.current_state = Some(assess_game_state(EarlierBoard(sz, player.symbol),
                                                      sz, player.symbol)),
             !.last_state = Some(assess_game_state(EarlierBoard(sz, player.symbol),
                                                   sz, player.symbol)),
             !.last_action = "take_edge_mid",
             !.last_turn = -1]
    ELSE player

\* a table QTable.load returned: play_game hands it to an agent that does
\* not learn (main.py 52, 4main.py 76)
LoadedTable(sz) ==
    [k \in {KeyOf(assess_game_state(EmptyBoard(sz), sz, "X"), "take_center"),
             KeyOf(assess_game_state(EmptyBoard(sz), sz, "O"), "take_random")} |->
        IF k[2] = "take_center" THEN QScale ELSE 0 - (QScale \div 2)]


Init ==
    /\ size \in {3, 4}
    /\ board = EmptyBoard(size)
    /\ num_dual_cells \in IF size = 3 THEN {0} ELSE (0..MaxDualGame) \cup {NumCells(4)}
    /\ dual_cell_positions = {}
    /\ ret = None
    /\ pc = "constructed"
    /\ current_player_index = 0
    /\ \E setup \in PlayerSetups(size) :
           \E reused \in {r \in BOOLEAN : r => \E i \in 1..2 : Learns(setup[i])} :
               players = GameInit(IF reused THEN Reused(setup[1], size) ELSE setup[1],
                                  IF reused THEN Reused(setup[2], size) ELSE setup[2],
                                  setup[3], size)
    /\ metrics \in {NoneOpt} \cup {Some(LearningMetrics) : i \in {i \in 0..1 : Learns(players[i])}}
    /\ td_updates = 0
    /\ table \in {NoTable} \cup
                {LoadedTable(size) : i \in {i \in 0..1 : /\ players[i].q_table
                                                          /\ ~players[i].learning_enabled}}
    /\ \E h \in Hyper : alpha = h.alpha /\ gamma = h.gamma /\ epsilon = h.epsilon
    /\ turnNo = 0
    /\ file = NoneOpt
    /\ log = NoLog

\* a switch_player that keeps the player
switch_player_mut_stay(idx) == idx

\* switch_player: "self.current_player_index = 1 - self.current_player_index"
switch_player(idx) == 1 - idx


\* the loop test of play(): "while not self.board.is_game_over()"
LoopPc(b, sz) == IF is_game_over(b, sz) THEN "over" ELSE "playing"

\* play() up to the loop: the wildcards are placed (4x4), the agents' episode
\* state is reset
GameStart ==
    /\ pc = "constructed"
    /\ \E r \in (IF size = 3
                 THEN {[board |-> board, dual_cell_positions |-> {}]}
                 ELSE assign_dual_cells(board, size, num_dual_cells,
                                        DualPoolFor(num_dual_cells))) :
           /\ board' = r.board
           /\ dual_cell_positions' = r.dual_cell_positions
           /\ pc' = LoopPc(r.board, size)
    /\ players' = [i \in 0..1 |->
                      IF isinstance(players[i], size)
                      THEN reset_episode(players[i]) ELSE players[i]]
    /\ UNCHANGED <<size, num_dual_cells, ret, current_player_index, qVars, turnNo, file,
                   metrics, td_updates, log>>

\* one iteration of the loop: play_turn, then switch_player
PlayTurn ==
    /\ pc = "playing"
    /\ \E move \in get_move(players[current_player_index], table, epsilon, board, size) :
           IF move.raised # None
           THEN /\ pc' = "raised"
                /\ log' = [mover |-> current_player_index, raised |-> move.raised,
                           action |-> None, position |-> NonePos, made |-> None,
                           before |-> board, game_over |-> FALSE, winner |-> None,
                           updates |-> <<>>]
                /\ turnNo' = turnNo + 1
                /\ UNCHANGED <<board, ret, players, table, current_player_index, metrics,
                               td_updates>>
           ELSE \E moved \in {[players EXCEPT ![current_player_index] =
                                  AfterGetMove(@, move, board, size, turnNo + 1)]} :
                \E turn \in {play_turn(moved, current_player_index, move, board, size)} :
                   /\ board' = turn.board
                   /\ ret' = turn.made
                   /\ players' = turn.players
                   /\ metrics' = MetricsAfterGetMove(metrics, players[current_player_index],
                                                     move)
                   /\ table' = ApplyUpdates(table, alpha, gamma, turn.updates)
                   /\ td_updates' = td_updates + Len(turn.updates)
                   /\ log' = [mover |-> current_player_index, raised |-> None,
                              action |-> move.action, position |-> move.position,
                              made |-> turn.made, before |-> board,
                              game_over |-> turn.game_over, winner |-> turn.winner,
                              reward |-> turn.reward, updates |-> turn.updates]
                   /\ turnNo' = turnNo + 1
                   /\ current_player_index' = switch_player(current_player_index)
                   /\ pc' = LoopPc(turn.board, size)
    /\ UNCHANGED <<size, num_dual_cells, dual_cell_positions, alpha, gamma, epsilon, file>>

\* train_agents after a game, at the end of an interval: the strategic best
\* actions and the table size are recorded and the action counts reset
\* (display_metrics only prints)
TrainInterval ==
    /\ pc = "over"
    /\ ~IsNone(metrics)
    /\ \E r \in record_strategic_qvalues(ValueOf(metrics), table, 1) :
       \E sized \in {record_qtable_size(r.metrics, get_table_size(r.table))} :
           /\ metrics' = Some(reset_action_counts(sized))
           /\ table' = r.table
    /\ pc' = "recorded"
    /\ UNCHANGED <<boardVars, current_player_index, players, turnNo, alpha, gamma, epsilon,
                   file, td_updates, log>>

Next == GameStart \/ PlayTurn \/ TrainInterval

Spec == Init /\ [][Next]_vars

\* the step of the loop of play(): the only step that is taken while the
\* loop test holds, and the only one that counts a turn
LoopStep == pc = "playing" /\ turnNo' = turnNo + 1

\* play() is sequential code: once called it places the wildcards, and while
\* the loop test holds it runs the next turn
SpecFair == Spec /\ WF_vars(GameStart) /\ WF_turnNo(LoopStep)

(***************************************************************************)
(* The update rule, checked on SpecQ                                       *)
(***************************************************************************)
\* the value a table holds for a key, absent keys read as 0
Stored(t, key) == IF key \in DOMAIN t THEN t[key] ELSE 0

\* the largest value of a non-empty set
Largest(S) == CHOOSE m \in S : \A x \in S : x <= m

\* r for a terminal call, r + gamma * max Q(s', a') otherwise
ExpectedTarget(call) ==
    IF IsNone(call.next_state) \/ IsNone(call.next_valid_actions)
    THEN call.reward * QScale
    ELSE LET nextValid == ValueOf(call.next_valid_actions)
             values == {Stored(call.before, KeyOf(ValueOf(call.next_state), nextValid[k])) :
                            k \in 1..Len(nextValid)}
         IN call.reward * QScale
            + Times(gamma, IF values = {} THEN 0 ELSE Largest(values))

\* C10: update_q_value(s, a, r, s', nextValid) leaves Q(s,a) at
\* Q(s,a) + alpha * (target - Q(s,a)), target being r when s' or nextValid is
\* absent and r + gamma * max over nextValid of Q(s', a') otherwise, absent
\* keys read as 0 and the max over an empty nextValid as 0; no other entry
\* of the table changes
C10_TDUpdateRule ==
    pc = "called" =>
        LET call == log[1]
            key == KeyOf(call.state, call.action)
            old == Stored(call.before, key)
        IN /\ DOMAIN table = DOMAIN call.before \cup {key}
           /\ table[key] = old + Times(alpha, ExpectedTarget(call) - old)
           /\ \A k \in DOMAIN call.before : k # key => table[k] = call.before[k]

\* a non-terminal update that bootstraps from a stored next value and moves Q(s,a)
C10_Witness ==
    /\ pc = "called"
    /\ ~IsNone(log[1].next_state)
    /\ ~IsNone(log[1].next_valid_actions)
    /\ Len(ValueOf(log[1].next_valid_actions)) = 2
    /\ gamma = 1
    /\ alpha = 1
    /\ log[1].reward = 0
    /\ KeyOf(log[1].state, log[1].action) \in DOMAIN log[1].before
    /\ \E k \in DOMAIN log[1].before :
           /\ k[1] = state_to_tuple(ValueOf(log[1].next_state))
           /\ log[1].before[k] = QScale
    /\ table[KeyOf(log[1].state, log[1].action)]
           # log[1].before[KeyOf(log[1].state, log[1].action)]

(***************************************************************************)
(* The episode claims, checked on Spec                                     *)
(***************************************************************************)
IsLearner(player) == player.kind = "TicTacAgent" /\ Learns(player)

Played == turnNo > 0 /\ log.raised = None

\* C1: the update of a learning player's move k is made only when that
\* player is about to choose its move k+1, or when the game ends, and the
\* next state of a non-terminal update is the state the player observes
\* after the opponent has replied: a non-terminal update belongs to a move
\* of an earlier turn and its next state counts two pieces more than its state
C1_DeferredUpdate ==
    Played =>
        \A k \in 1..Len(log.updates) :
            LET u == log.updates[k] IN
            IF IsNone(u.next_state)
            THEN log.game_over
            ELSE /\ u.move_turn < turnNo
                 /\ ValueOf(u.next_state).total_pieces_placed
                        = u.state.total_pieces_placed + 2

\* the update play_turn owes a player at the terminal turn
TerminalReward(i) ==
    IF log.winner = None THEN 0
    ELSE IF i = log.mover THEN 1 ELSE -1

\* C2: in the turn whose move ends the game every learning player that has
\* moved in the episode gets one update with no next state for its last
\* (state, action), the mover with +1 for a win or 0 for a draw, the
\* opponent with -1 or 0
C2_TerminalDoubleUpdate ==
    (Played /\ log.game_over) =>
        /\ log.winner \in {None, players[log.mover].symbol}
        /\ \A i \in 0..1 :
               (IsLearner(players[i]) /\ players[i].last_turn > 0) =>
                   \E k \in 1..Len(log.updates) :
                       /\ log.updates[k].player = i
                       /\ IsNone(log.updates[k].next_state)
                       /\ log.updates[k].reward = TerminalReward(i)
                       /\ log.updates[k].state = ValueOf(players[i].last_state)
                       /\ log.updates[k].action = players[i].last_action
                       /\ \A j \in 1..Len(log.updates) :
                              log.updates[j].player = i => j = k

\* C4: while the game is on, get_valid_actions is not empty for the learning
\* agent that is asked to move and get_move never raises the "No valid
\* actions provided" error; on every board of an episode get_valid_actions
\* is empty, for either symbol, only if no cell is Empty
C4_NoValidActionsUnreachable ==
    /\ turnNo > 0 => log.raised # "ValueError"
    /\ (pc = "playing" /\ IsLearner(players[current_player_index])) =>
           get_valid_actions(board, size, players[current_player_index].symbol) # <<>>
    /\ pc \in {"playing", "over"} =>
           \A symbol \in Symbols :
               get_valid_actions(board, size, symbol) = <<>> =>
                   \A p \in Positions(size) : board[p] # None

\* a learning agent is asked to move with one Empty cell left
C4_Witness ==
    /\ pc = "playing"
    /\ IsLearner(players[current_player_index])
    /\ Cardinality({p \in Positions(size) : board[p] = None}) = 1
    /\ get_valid_actions(board, size, players[current_player_index].symbol) # <<>>

\* every position an action can return, whatever random.choice draws
Proposals(name, b, sz, symbol) ==
    CASE name = "win_now" -> {win_now(b, sz, symbol)}
      [] name = "block_opponent" -> {block_opponent(b, sz, symbol)}
      [] name = "take_center" -> {take_center(b, sz)[k] : k \in 1..Len(take_center(b, sz))}
      [] name = "take_edge_mid" ->
             {take_edge_mid(b, sz)[k] : k \in 1..Len(take_edge_mid(b, sz))}
      [] name = "take_corner" -> {take_corner(b, sz)[k] : k \in 1..Len(take_corner(b, sz))}
      [] name = "take_random" -> {take_random(b, sz)[k] : k \in 1..Len(take_random(b, sz))}

\* in range, Empty and no wildcard cell
ValidTarget(b, pos) ==
    /\ pos \in Positions(size)
    /\ b[pos] = None
    /\ pos \notin dual_cell_positions
    /\ is_valid_move(b, size, pos)

\* C5: on every board of an episode that is not full, every position that
\* an action of get_valid_actions can return is an index in range of an
\* Empty cell that is no wildcard, and the move a learning agent made was
\* such a position and make_move accepted it
C5_AgentTargetsValid ==
    /\ pc \in {"playing", "over"} =>
           \A symbol \in Symbols :
               \A k \in 1..Len(get_valid_actions(board, size, symbol)) :
                   \A pos \in Proposals(get_valid_actions(board, size, symbol)[k],
                                        board, size, symbol) :
                       ValidTarget(board, pos)
    /\ (turnNo > 0 /\ IsLearner(players[log.mover])) =>
           /\ log.raised = None
           /\ ValidTarget(log.before, log.position)
           /\ log.made = "True"

\* a learning agent took a middle cell of a 4x4 board whose middle zone
\* holds a wildcard
C5_Witness ==
    /\ Played
    /\ size = 4
    /\ IsLearner(players[log.mover])
    /\ log.action = "take_center"
    /\ \E p \in dual_cell_positions : p \in {5, 6, 9, 10}
    /\ log.made = "True"

(***************************************************************************)
(* Further properties of the QTable, checked on SpecQ                      *)
(***************************************************************************)
\* C11: whatever alpha is, if the TD target of an update_q_value call
\* equals Q(s,a) before the call, the value read for Q(s,a) after the call
\* is the value read before it
C11_TDFixedPoint ==
    (pc = "called" /\ log[1].op = "update_q_value") =>
        LET call == log[1]
            old == Stored(call.before, KeyOf(call.state, call.action))
        IN ExpectedTarget(call) = old =>
               get_q_value(table, call.state, call.action) = old

\* an update with a positive alpha whose target, bootstrapped from a stored
\* next value, equals the stored non-zero Q(s,a)
C11_Witness ==
    /\ pc = "called"
    /\ log[1].op = "update_q_value"
    /\ alpha > 0
    /\ ~IsNone(log[1].next_state)
    /\ ~IsNone(log[1].next_valid_actions)
    /\ Stored(log[1].before, KeyOf(log[1].state, log[1].action)) = QScale
    /\ ExpectedTarget(log[1]) = QScale
    /\ get_q_value(table, log[1].state, log[1].action) = QScale

\* the members of a list
Members(list) == {list[k] : k \in 1..Len(list)}

\* the members of valid_actions whose value, absent keys read as 0, is maximal
ArgMax(t, state, valid_actions) ==
    {a \in Members(valid_actions) :
        \A b \in Members(valid_actions) :
            Stored(t, KeyOf(state, b)) <= Stored(t, KeyOf(state, a))}

\* C12: with epsilon = 0 epsilon_greedy_select returns a member of
\* valid_actions whose value, absent keys read as 0, is maximal among
\* valid_actions; each maximal member can be returned, no other can
C12_GreedySelectsArgmax ==
    (pc = "selected" /\ epsilon = 0 /\ log[1].raised = None) =>
        /\ log[1].result \in ArgMax(table, log[1].state, log[1].valid_actions)
        /\ epsilon_greedy_select(table, epsilon, log[1].state, log[1].valid_actions,
                                 Len(log[1].valid_actions))
               = ArgMax(table, log[1].state, log[1].valid_actions)

\* with epsilon = 0 the second of two valid actions was returned: its key is
\* absent and the first holds a negative value
C12_Witness ==
    /\ pc = "selected"
    /\ epsilon = 0
    /\ log[1].valid_actions = <<"take_center", "take_random">>
    /\ log[1].result = "take_random"
    /\ KeyOf(log[1].state, "take_random") \notin DOMAIN table
    /\ Stored(table, KeyOf(log[1].state, "take_center")) < 0

\* C13: with epsilon = 1 epsilon_greedy_select returns a member of
\* valid_actions drawn by random.choice(valid_actions): whatever values the
\* table holds, every member of valid_actions can be returned and nothing else
C13_ExploreSelectsAny ==
    (pc = "selected" /\ epsilon = HDen /\ log[1].raised = None) =>
        /\ log[1].result \in Members(log[1].valid_actions)
        /\ \A t \in QLoadedTables :
               epsilon_greedy_select(t, epsilon, log[1].state, log[1].valid_actions,
                                     Len(log[1].valid_actions))
                   = Members(log[1].valid_actions)

\* with epsilon = 1 an action was returned whose value is below another's
C13_Witness ==
    /\ pc = "selected"
    /\ epsilon = HDen
    /\ log[1].valid_actions = <<"take_center", "take_random">>
    /\ log[1].result = "take_center"
    /\ Stored(table, KeyOf(log[1].state, "take_center"))
           < Stored(table, KeyOf(log[1].state, "take_random"))

\* C14: loading the file that save wrote for a store yields a store whose
\* table has the same keys and values and whose alpha, gamma and epsilon are
\* those of the saved store
C14_SaveLoadRoundTrip ==
    (pc = "reloaded" /\ ~IsNone(file) /\ log[1].content = ValueOf(file)) =>
        /\ log[1].raised = None
        /\ ~IsNone(log[1].returned)
        /\ DOMAIN ValueOf(log[1].returned).table = DOMAIN table
        /\ \A k \in DOMAIN table : ValueOf(log[1].returned).table[k] = table[k]
        /\ ValueOf(log[1].returned).alpha = alpha
        /\ ValueOf(log[1].returned).gamma = gamma
        /\ ValueOf(log[1].returned).epsilon = epsilon

\* a store of three entries with non-default hyperparameters was saved and loaded
C14_Witness ==
    /\ pc = "reloaded"
    /\ ~IsNone(file)
    /\ log[1].content = ValueOf(file)
    /\ Cardinality(DOMAIN table) = 3
    /\ alpha = 1 /\ gamma = 0 /\ epsilon = HDen
    /\ ~IsNone(log[1].returned)

\* the fields a written file holds
FieldsOf(content) == {content[i][1] : i \in 1..Len(content)}

\* C15: load of a file that lacks table, alpha, gamma or epsilon raises an
\* error to its caller and returns no store
C15_LoadMissingField ==
    (pc = "reloaded"
     /\ ~({"table", "alpha", "gamma", "epsilon"} \subseteq FieldsOf(log[1].content))) =>
        /\ log[1].raised # None
        /\ IsNone(log[1].returned)

\* a file with the three hyperparameters and no table was loaded
C15_Witness ==
    /\ pc = "reloaded"
    /\ FieldsOf(log[1].content) = {"alpha", "gamma", "epsilon"}
    /\ log[1].raised = "KeyError"

(***************************************************************************)
(* Further properties of the episodes, checked on Spec                     *)
(***************************************************************************)
\* what the turn of the current state leaves when the random source yields d:
\* the move, the board, the table and the players
TurnOutcomes(d) ==
    {LET moved == [players EXCEPT ![current_player_index] =
                      AfterGetMove(@, move, board, size, turnNo + 1)]
         turn == IF move.raised = None
                 THEN play_turn(moved, current_player_index, move, board, size)
                 ELSE [board |-> board, updates |-> <<>>, players |-> moved]
     IN [move |-> move, board |-> turn.board, players |-> turn.players,
         table |-> ApplyUpdates(table, alpha, gamma, turn.updates)] :
        move \in get_move_drawn(players[current_player_index], table, epsilon,
                                board, size, d)}

C17_PendingResetPerEpisode ==
    /\ (pc # "constructed" /\ turnNo = 0) =>
           \A i \in 0..1 :
               IsLearner(players[i]) =>
                   IsNone(players[i].last_state) /\ players[i].last_action = None
    /\ Played => \A k \in 1..Len(log.updates) : log.updates[k].move_turn >= 1

\* the moves, as (player, turn of the move) pairs, whose stored
\* (last_state, last_action) the update_q_value calls of a turn were made for
UpdatedMoves(updates) ==
    {<<updates[k].player, updates[k].move_turn>> : k \in 1..Len(updates)}

\* the update_q_value calls of the turn just played, none before the first
UpdatesOfTurn == IF Played THEN log.updates ELSE <<>>

\* C18: a learning agent holds one (last_state, last_action) pair, of which
\* either both or neither are set, and the pair of a move that has had its
\* update is not updated again: the calls of one turn are for different
\* moves, and none is for a move the turn before already made a call for
C18_OnePendingTransition ==
    [][/\ \A i \in 0..1 :
              IsLearner(players'[i]) =>
                  (IsNone(players'[i].last_state) <=> players'[i].last_action = None)
       /\ (turnNo' > turnNo /\ log'.raised = None) =>
              \A k \in 1..Len(log'.updates) :
                  /\ <<log'.updates[k].player, log'.updates[k].move_turn>>
                         \notin UpdatedMoves(UpdatesOfTurn)
                  /\ \A j \in 1..Len(log'.updates) :
                         (/\ log'.updates[j].player = log'.updates[k].player
                          /\ log'.updates[j].move_turn = log'.updates[k].move_turn)
                             => j = k]_vars

(***************************************************************************)
(* The wildcards of a board, checked on SpecBoard                          *)
(***************************************************************************)
\* the cells of a board that hold the wildcard mark
WildcardCells(b, sz) == {p \in Positions(sz) : b[p] = "B"}

\* C19: once assign_dual_cells has run, no make_move call, accepted or
\* refused, with either symbol, changes dual_cell_positions or the value 'B'
\* of a wildcard cell, and the cells holding 'B' remain exactly the recorded
\* positions
C19_WildcardImmutable ==
    [][pc = "assigned" =>
           /\ dual_cell_positions' = dual_cell_positions
           /\ \A p \in dual_cell_positions : board[p] = "B" /\ board'[p] = "B"
           /\ WildcardCells(board', size) = dual_cell_positions]_vars

\* a 4x4 board with wildcards on which both symbols have been placed and the
\* last make_move was refused
C19_Witness ==
    /\ size = 4
    /\ pc = "assigned"
    /\ dual_cell_positions # {}
    /\ ret = "False"
    /\ \E p, q \in Positions(size) : board[p] = "X" /\ board[q] = "O"

\* a board on which exactly the k positions D hold 'B' and every other cell
\* is Empty
MarksExactly(b, sz, D, k) ==
    /\ D \subseteq Positions(sz)
    /\ Cardinality(D) = k
    /\ \A p \in Positions(sz) : b[p] = IF p \in D THEN "B" ELSE None

\* C20: on a fresh 4x4 board assign_dual_cells with count k, for every k
\* from 0 to 16 and every sample of range(16), marks exactly k distinct
\* cells 'B', records exactly those in dual_cell_positions and leaves the
\* other cells Empty, all cells when k = 0; and so is the board right after
\* the assignment with num_dual_cells
C20_AssignDualCells ==
    /\ (size = 4 /\ pc = "constructed") =>
           \A k \in 0..NumCells(size) :
               \A r \in assign_dual_cells(board, size, k, Positions(size)) :
                   /\ MarksExactly(r.board, size, r.dual_cell_positions, k)
                   /\ k = 0 => r.board = EmptyBoard(size)
    /\ (size = 4 /\ pc = "assigned" /\ ret = None) =>
           MarksExactly(board, size, dual_cell_positions, num_dual_cells)

\* a board right after three wildcards were assigned
C20_Witness ==
    /\ size = 4
    /\ pc = "assigned"
    /\ ret = None
    /\ num_dual_cells = 3
    /\ Cardinality(WildcardCells(board, size)) = 3

(***************************************************************************)
(* The features and the actions of the agent, checked on SpecBoard         *)
(***************************************************************************)
\* some win line is one Empty cell short of holding only S and wildcards
SomeLineOneShort(b, sz, S) ==
    \E i \in 1..Len(LinesOf(sz)) : LineOneShort(b, LinesOf(sz)[i], S)

\* C21: for every board and symbol can_win_this_turn is true iff some win
\* line has exactly one Empty cell and only the symbol and wildcards
\* otherwise, iff win_now returns a position, iff 'win_now' is among the
\* valid actions; and the same of must_block_this_turn, block_opponent and
\* 'block_opponent' with the opponent's symbol
C21_FeatureActionAgreement ==
    \A S \in Symbols :
        LET valid == Members(get_valid_actions(board, size, S)) IN
        /\ _can_win_this_turn(board, size, S) <=> SomeLineOneShort(board, size, S)
        /\ _can_win_this_turn(board, size, S) <=> win_now(board, size, S) # NonePos
        /\ _can_win_this_turn(board, size, S) <=> "win_now" \in valid
        /\ _must_block_this_turn(board, size, S)
               <=> SomeLineOneShort(board, size, Opponent(S))
        /\ _must_block_this_turn(board, size, S) <=> block_opponent(board, size, S) # NonePos
        /\ _must_block_this_turn(board, size, S) <=> "block_opponent" \in valid

\* a 4x4 board on which X can win only through a wildcard and O must block
C21_Witness ==
    /\ size = 4
    /\ _can_win_this_turn(board, 4, "X")
    /\ "win_now" \in Members(get_valid_actions(board, 4, "X"))
    /\ _must_block_this_turn(board, 4, "O")
    /\ \A i \in 1..Len(Lines4) :
           LineOneShort(board, Lines4[i], "X") =>
               /\ \E p \in CellsOf(Lines4[i]) : board[p] = "B"
               /\ \E p \in CellsOf(Lines4[i]) : board[p] = "X"

\* the zones of the 4x4 board as the claim names them
MiddleZone4 == {5, 6, 9, 10}
Corners4 == {0, 3, 12, 15}
EdgeMids4 == {1, 2, 4, 7, 8, 11, 13, 14}

\* the number of cells of a zone that hold one of the values vs
CellsHolding(b, zone, vs) == Cardinality({p \in zone : b[p] \in vs})

\* C22: on every 4x4 board, for either symbol, each availability count of
\* assess_game_state is the number of Empty cells of its zone,
\* qty_middle_zone_owned the number of middle cells holding the symbol and
\* total_pieces_placed the number of cells holding X or O; wildcards count
\* nowhere, so the three availability counts, the pieces and the wildcards
\* add up to the 16 cells
C22_CountsIgnoreWildcards ==
    size = 4 =>
        \A S \in Symbols :
            LET state == assess_game_state(board, size, S) IN
            /\ state.qty_middle_zone_available = CellsHolding(board, MiddleZone4, {None})
            /\ state.qty_corners_available = CellsHolding(board, Corners4, {None})
            /\ state.qty_edge_mids_available = CellsHolding(board, EdgeMids4, {None})
            /\ state.qty_middle_zone_owned = CellsHolding(board, MiddleZone4, {S})
            /\ state.total_pieces_placed = CellsHolding(board, Positions(4), {"X", "O"})
            /\ state.qty_middle_zone_available + state.qty_corners_available
                   + state.qty_edge_mids_available + state.total_pieces_placed
                   + Cardinality(WildcardCells(board, 4)) = 16

\* a 4x4 board with a wildcard in the middle zone and one in a corner, a
\* middle cell owned by X and a piece of O
C22_Witness ==
    /\ size = 4
    /\ \E p \in MiddleZone4 : board[p] = "B"
    /\ \E p \in Corners4 : board[p] = "B"
    /\ \E p \in MiddleZone4 : board[p] = "X"
    /\ \E p \in Positions(4) : board[p] = "O"

(***************************************************************************)
(* Selection on an empty list of valid actions, checked on SpecQ           *)
(***************************************************************************)
\* C23: a call of get_best_action or of epsilon_greedy_select with an empty
\* list of valid actions raises an error and returns nothing, whatever
\* epsilon is and whatever the table holds, and leaves the table and the
\* hyperparameters as they were
C23_EmptyValidActionsFail ==
    [][(/\ pc = "loaded"
        /\ pc' \in {"selected", "best"}
        /\ Len(log'[1].valid_actions) = 0) =>
           /\ log'[1].raised = "ValueError"
           /\ log'[1].result = None
           /\ table' = table
           /\ <<alpha', gamma', epsilon'>> = <<alpha, gamma, epsilon>>]_vars

\* get_best_action raised on an empty list while the table held entries
C23_Witness ==
    /\ pc = "best"
    /\ log[1].op = "get_best_action"
    /\ log[1].valid_actions = <<>>
    /\ log[1].raised = "ValueError"
    /\ DOMAIN table # {}

(***************************************************************************)
(* The metrics collector, checked on Spec                                  *)
(***************************************************************************)
\* C24: the collector only observes.  Recording the strategic Q-values and
\* the table size and resetting the action counts leaves the table, the
\* hyperparameters, the players and the board as they were; and a turn in
\* which record_action ran leaves the move, board, players and table that
\* the same turn leaves when no collector is attached, the table being the
\* one the turn's updates produce
C24_MetricsObservational ==
    [][/\ (pc = "over" /\ pc' = "recorded") =>
              /\ table' = table
              /\ <<alpha', gamma', epsilon'>> = <<alpha, gamma, epsilon>>
              /\ players' = players
              /\ board' = board
       /\ (pc = "playing" /\ turnNo' = turnNo + 1 /\ log'.raised = None) =>
              /\ table' = ApplyUpdates(table, alpha, gamma, log'.updates)
              /\ <<alpha', gamma', epsilon'>> = <<alpha, gamma, epsilon>>
              /\ \E d \in Draws(epsilon, size) :
                     \E o \in TurnOutcomes(d) :
                         /\ o.move.action = log'.action
                         /\ o.move.position = log'.position
                         /\ o.board = board'
                         /\ o.players = players'
                         /\ o.table = table']_vars

\* after an episode that left entries in the table, the collector recorded a
\* best action for a state in which the agent could win, and the table size
C24_Witness ==
    /\ pc = "recorded"
    /\ table # NoTable
    /\ \E k \in DOMAIN table : table[k] # 0
    /\ ValueOf(metrics).can_win_best[1][1] # "none"
    /\ ValueOf(metrics).qtable_sizes = <<Cardinality(DOMAIN table)>>

(***************************************************************************)
(* The feature extractor in an episode, checked on Spec                    *)
(***************************************************************************)
\* C25: assess_game_state changes no board cell, no wildcard position and no
\* table entry, and what it returns is fixed by the cells of the board it
\* is given and the symbol, whatever calls and moves came before: in every
\* turn the board changes only in the cell of the move, the wildcard set is
\* kept, the table is the one the turn's updates produce, the state the
\* mover stored is the feature dict of the board before the move, the next
\* state of its update is the feature dict of the board after the move, and
\* the agent's current_state is the dict of its last call
C25_AssessSideEffectFree ==
    [][(pc = "playing" /\ turnNo' = turnNo + 1 /\ log'.raised = None) =>
           LET mover == players'[log'.mover]
               before == assess_game_state(board, size, mover.symbol)
               after == assess_game_state(board', size, mover.symbol)
               again == ~log'.game_over /\ isinstance(mover, size)
           IN /\ \A p \in Positions(size) \ {log'.position} : board'[p] = board[p]
              /\ dual_cell_positions' = dual_cell_positions
              /\ table' = ApplyUpdates(table, alpha, gamma, log'.updates)
              /\ mover.kind = "TicTacAgent" =>
                     /\ Learns(mover) => mover.last_state = Some(before)
                     /\ mover.current_state = Some(IF again THEN after ELSE before)
                     /\ \A k \in 1..Len(log'.updates) :
                            (/\ log'.updates[k].player = log'.mover
                             /\ ~IsNone(log'.updates[k].next_state)) =>
                                /\ log'.updates[k].next_state = Some(after)
                                /\ log'.updates[k].state = before]_vars

\* in a later turn of an episode a learning agent has assessed the board
\* before and after its move, with different results
C25_Witness ==
    /\ pc = "playing"
    /\ turnNo >= 3
    /\ log.raised = None
    /\ IsLearner(players[log.mover])
    /\ Len(log.updates) = 1
    /\ players[log.mover].current_state = log.updates[1].next_state
    /\ players[log.mover].current_state # players[log.mover].last_state

(***************************************************************************)
(* Terminal boards, checked on Spec                                        *)
(***************************************************************************)
\* the Empty cells of a board
EmptyCells(b, sz) == {p \in Positions(sz) : b[p] = None}

\* C26: is_game_over is true iff check_winner returns a symbol or the board
\* is full, and the board is full iff it has no Empty cell, a wildcard cell
\* being no Empty cell; the loop of play() runs exactly while this is false
C26_TerminalBoard ==
    /\ is_full(board, size) <=> EmptyCells(board, size) = {}
    /\ is_game_over(board, size)
           <=> (check_winner(board, size) # None \/ EmptyCells(board, size) = {})
    /\ pc = "playing" => ~is_game_over(board, size)
    /\ pc = "over" => is_game_over(board, size)

\* a 4x4 episode has ended on a board without Empty cell that holds
\* wildcards and that nobody has won
C26_Witness ==
    /\ size = 4
    /\ pc = "over"
    /\ dual_cell_positions # {}
    /\ EmptyCells(board, 4) = {}
    /\ WildcardCells(board, 4) = dual_cell_positions
    /\ check_winner(board, 4) = None

(***************************************************************************)
(* The active player and the length of an episode, checked on Spec         *)
(***************************************************************************)
\* C27: after a turn that does not end the game the current player is the
\* other player, and after the turn that ends the game the current player is
\* still the player who made that move
C27_SwitchUnlessTerminal ==
    Played =>
        current_player_index = IF log.game_over THEN log.mover ELSE 1 - log.mover

\* the number of cells a move can be made on when the episode starts
Playable == NumCells(size) - Cardinality(dual_cell_positions)

\* C28: every episode ends, after at most (number of cells - number of
\* wildcards) turns: every move is accepted and each turn makes exactly one
\* Empty cell an Owned cell, so after t turns t cells are Owned and the other
\* non-wildcard cells Empty; on a board of 16 wildcards the episode ends
\* without a turn
C28_Termination ==
    /\ [](pc # "constructed" =>
              /\ turnNo <= Playable
              /\ pc # "raised"
              /\ pc = "playing" =>
                     get_move(players[current_player_index], table, epsilon, board,
                              size) # {}
              /\ Played => log.made = "True"
              /\ Cardinality({p \in Positions(size) : board[p] \in Symbols}) = turnNo
              /\ Cardinality(EmptyCells(board, size)) = Playable - turnNo
              /\ num_dual_cells = NumCells(size) => pc # "playing" /\ turnNo = 0)
    /\ <>(pc \in {"over", "recorded"})

\* a 4x4 episode with two wildcards has ended after 14 turns
C28_Witness ==
    /\ size = 4
    /\ pc = "over"
    /\ Cardinality(dual_cell_positions) = 2
    /\ turnNo = 14

(***************************************************************************)
(* The winner after a move, checked on Spec                                *)
(***************************************************************************)
\* the lines of the board that are complete for symbol: no Empty cell, only
\* symbol and wildcards, at least one symbol
LinesWonBy(b, sz, symbol) ==
    {i \in 1..Len(winning_combinations(sz)) :
        LET symbols == SymbolsOf(b, winning_combinations(sz)[i]) IN
        /\ CountIn(symbols, {symbol, "B"}) = Len(symbols)
        /\ CountIn(symbols, {symbol}) > 0}

\* C29: right after a player's move check_winner returns none or the mover's
\* symbol, never the idle opponent's, whatever the wildcards; so no update of
\* the mover carries reward -1 and no update of the opponent reward +1
C29_WinnerIsMover ==
    Played =>
        /\ log.winner = check_winner(board, size)
        /\ log.winner \in {None, players[log.mover].symbol}
        /\ LinesWonBy(board, size, players[1 - log.mover].symbol) = {}
        /\ \A i \in 1..Len(log.updates) :
               IF log.updates[i].player = log.mover
               THEN log.updates[i].reward \in {0, 1}
               ELSE log.updates[i].reward \in {-1, 0}

\* the second player wins a 4x4 game through a line that holds a wildcard
C29_Witness ==
    /\ Played /\ size = 4 /\ log.game_over
    /\ players[log.mover].symbol = "O"
    /\ log.winner = "O"
    /\ \E i \in LinesWonBy(board, size, "O") :
           CountIn(SymbolsOf(board, winning_combinations(size)[i]), {"B"}) > 0

(***************************************************************************)
(* The number of updates of an episode, checked on Spec                    *)
(***************************************************************************)
\* C30: an episode between two learning agents that lasts m >= 2 moves
\* applies exactly m + 1 updates to the table: one in every turn for the
\* mover, and at the last turn a second one for the idle opponent's last move
C30_UpdateCount ==
    /\ (/\ pc \in {"over", "recorded"}
        /\ IsLearner(players[0]) /\ IsLearner(players[1])
        /\ turnNo >= 2) => td_updates = turnNo + 1
    /\ (Played /\ IsLearner(players[0]) /\ IsLearner(players[1])) =>
           /\ \E k \in 1..Len(log.updates) :
                  /\ log.updates[k].player = log.mover
                  /\ log.updates[k].move_turn = turnNo
           /\ (log.game_over /\ turnNo >= 2) =>
                  \E k \in 1..Len(log.updates) :
                      /\ log.updates[k].player = 1 - log.mover
                      /\ log.updates[k].move_turn = turnNo - 1

(***************************************************************************)
(* The end of the episode, checked on Spec                                 *)
(***************************************************************************)
\* a board with a winner or without an Empty cell
TerminalBoard(b, sz) == check_winner(b, sz) # None \/ EmptyCells(b, sz) = {}

\* C31: once the board is terminal no turn is run: the board, the table and
\* the counts of turns and updates stay as they are for the rest of the
\* episode, and a turn is run only from a board that is not terminal
C31_NoMoveAfterTerminal ==
    [][/\ TerminalBoard(board, size) =>
              /\ board' = board
              /\ table' = table
              /\ turnNo' = turnNo
              /\ td_updates' = td_updates
              /\ pc' \notin {"playing", "raised"}
       /\ turnNo' # turnNo => ~TerminalBoard(board, size) /\ pc = "playing"]_vars

\* a step was taken after a winning move, with updates applied before it
C31_Witness ==
    /\ pc = "recorded"
    /\ check_winner(board, size) # None
    /\ EmptyCells(board, size) # {}
    /\ td_updates > 0

(***************************************************************************)
(* Alternation, checked on Spec                                            *)
(***************************************************************************)
\* the number of cells of the board that hold symbol
CellsHeld(b, sz, symbol) == Cardinality({p \in Positions(sz) : b[p] = symbol})

\* C32: X, the first player, makes the first move and the players then
\* alternate: turn t is made by X when t is odd and by O when t is even, and
\* in every state the board holds as many X as O, or one X more
C32_Alternation ==
    /\ CellsHeld(board, size, "X") - CellsHeld(board, size, "O") \in {0, 1}
    /\ players[0].symbol = "X" /\ players[1].symbol = "O"
    /\ pc \in {"constructed", "playing"} => current_player_index = turnNo % 2
    /\ Played =>
           /\ log.mover = (turnNo - 1) % 2
           /\ board[log.position] = players[log.mover].symbol
           /\ CellsHeld(board, size, "X") = (turnNo + 1) \div 2
           /\ CellsHeld(board, size, "O") = turnNo \div 2

\* a 4x4 game with wildcards after X's third move
C32_Witness ==
    /\ Played /\ size = 4 /\ dual_cell_positions # {}
    /\ turnNo = 5 /\ log.mover = 0
    /\ CellsHeld(board, size, "X") = 3 /\ CellsHeld(board, size, "O") = 2

(***************************************************************************)
(* Cells are written once, checked on Spec                                 *)
(***************************************************************************)
\* the cells in which two boards differ
ChangedCells(b, c, sz) == {p \in Positions(sz) : b[p] # c[p]}

\* C33: on every board an episode reaches, a make_move call with any
\* position and symbol either is refused and changes nothing, or changes the
\* one cell it names from Empty to the symbol; every turn of the episode
\* changes exactly one cell, from Empty to the mover's symbol, so the Empty
\* cells become one fewer, and a cell holding X or O keeps it in every step
C33_WriteOnce ==
    /\ [](\A position \in Positions(size) \cup {-1, NumCells(size)}, symbol \in Symbols :
             LET r == make_move(board, size, position, symbol) IN
             IF r.ret = "True"
             THEN /\ position \in Positions(size)
                  /\ board[position] = None
                  /\ r.board[position] = symbol
                  /\ ChangedCells(board, r.board, size) = {position}
             ELSE /\ r.ret = "False"
                  /\ r.board = board
                  /\ position \in Positions(size) => board[position] # None)
    /\ [][/\ \A p \in Positions(size) : board[p] \in Symbols => board'[p] = board[p]
          /\ turnNo' # turnNo =>
                 /\ ret' = "True"
                 /\ ChangedCells(board, board', size) = {log'.position}
                 /\ board[log'.position] = None
                 /\ board'[log'.position] = players[current_player_index].symbol
                 /\ Cardinality(EmptyCells(board', size))
                        = Cardinality(EmptyCells(board, size)) - 1
          /\ (turnNo' = turnNo /\ pc # "constructed") => board' = board]_vars

\* a 4x4 board with wildcards, an X, an O and an Empty cell after a turn: a
\* make_move there is refused on some cells and accepted on others
C33_Witness ==
    /\ Played /\ size = 4 /\ turnNo >= 4
    /\ dual_cell_positions # {}
    /\ board[log.position] = players[log.mover].symbol
    /\ EmptyCells(board, size) # {}
    /\ \E p \in Positions(size) : make_move(board, size, p, "X").ret = "False"

(***************************************************************************)
(* Win before draw, checked on Spec                                        *)
(***************************************************************************)
\* the update_q_value calls of the last turn made for player i
UpdatesFor(i) == {k \in 1..Len(log.updates) : log.updates[k].player = i}

C35_UpdateMaterialisesKey ==
    /\ []((pc = "called" /\ log[1].op = "update_q_value") =>
             LET call == log[1]
                 key == KeyOf(call.state, call.action)
             IN /\ key \in DOMAIN table
                /\ DOMAIN call.before \subseteq DOMAIN table
                /\ DOMAIN table \ DOMAIN call.before \subseteq {key}
                /\ get_table_size(table)
                       = get_table_size(call.before)
                         + (IF key \in DOMAIN call.before THEN 0 ELSE 1)
                /\ \A k \in DOMAIN call.before \ {key} : table[k] = call.before[k]
                /\ (/\ DOMAIN call.before = {}
                    /\ call.reward = 0
                    /\ IsNone(call.next_state)) =>
                       table[key] = 0 /\ get_table_size(table) = 1)
    /\ [][(pc = "loaded" /\ pc' = "called") =>
              alpha' = alpha /\ gamma' = gamma /\ epsilon' = epsilon]_vars

\* the update with reward 0 and no next state on an empty table: one entry,
\* holding 0
C35_Witness ==
    /\ pc = "called" /\ log[1].op = "update_q_value"
    /\ DOMAIN log[1].before = {}
    /\ log[1].reward = 0
    /\ IsNone(log[1].next_state)
    /\ DOMAIN table = {KeyOf(log[1].state, log[1].action)}
    /\ table[KeyOf(log[1].state, log[1].action)] = 0

\* the pc values the reading methods of the table leave
ReaderPcs == {"got", "max", "best", "selected", "sized"}

\* C36: get_q_value, get_max_q_value, get_best_action, epsilon_greedy_select
\* and get_table_size leave the keys, the values and the hyperparameters of
\* the table as they were; get_q_value of a key the table does not hold
\* returns 0 and the key is still not held afterwards
C36_ReadingNeverWrites ==
    /\ [][(pc = "loaded" /\ pc' \in ReaderPcs) =>
              /\ DOMAIN table' = DOMAIN table
              /\ table' = table
              /\ alpha' = alpha /\ gamma' = gamma /\ epsilon' = epsilon
              /\ log'[1].op = "get_q_value" =>
                     LET key == KeyOf(log'[1].state, log'[1].action) IN
                     IF key \in DOMAIN table
                     THEN log'[1].ret = table[key]
                     ELSE log'[1].ret = 0 /\ key \notin DOMAIN table'
              /\ log'[1].op = "get_table_size" =>
                     log'[1].ret = Cardinality(DOMAIN table')]_vars
    /\ [](pc \in ReaderPcs =>
              log[1].op \in {"get_q_value", "get_max_q_value", "get_best_action",
                              "epsilon_greedy_select", "get_table_size"})

\* get_q_value was called for a key that a non-empty table does not hold
C36_Witness ==
    /\ pc = "got"
    /\ table # NoTable
    /\ KeyOf(log[1].state, log[1].action) \notin DOMAIN table
    /\ log[1].ret = 0

(***************************************************************************)
(* Agents that do not learn, checked on Spec                               *)
(***************************************************************************)
\* an agent without a table or with learning_enabled = False
LearningDisabled(player) ==
    player.kind = "TicTacAgent" /\ (~player.q_table \/ ~player.learning_enabled)

\* the positions get_move can return on the board, every outcome of its
\* random.choice followed
PositionsOfGetMove(player) ==
    {m.position :
        m \in UNION {get_move_drawn(player, table, epsilon, board, size,
                                    [explore |-> e, a |-> 1, p |-> i]) :
                         e \in BOOLEAN, i \in 1..NumCells(size)}}

\* C37: an agent without a table or with learning disabled never holds a
\* pending (state, action) and no update_q_value call is made for it; its
\* get_move names no action and can return any Empty position and nothing
\* else; in a game in which no player learns the table and its
\* hyperparameters stay as they were
C37_LearningDisabled ==
    /\ [](\A i \in 0..1 :
             LearningDisabled(players[i]) =>
                 /\ IsNone(players[i].last_state)
                 /\ players[i].last_action = None
                 /\ Played => \A k \in 1..Len(log.updates) : log.updates[k].player # i
                 /\ (Played /\ log.mover = i) =>
                        log.action = None /\ log.before[log.position] = None
                 /\ (pc = "playing" /\ current_player_index = i) =>
                        PositionsOfGetMove(players[i]) = EmptyCells(board, size))
    /\ [][(\A i \in 0..1 : players[i].kind = "HumanPlayer" \/ LearningDisabled(players[i]))
              => /\ table' = table
                 /\ alpha' = alpha /\ gamma' = gamma /\ epsilon' = epsilon]_vars

\* the end of a game a trained agent with learning disabled has played with
\* a loaded table
C37_Witness ==
    /\ pc = "over" /\ turnNo >= 5
    /\ \E i \in 0..1 :
           /\ players[i].kind = "TicTacAgent"
           /\ players[i].q_table /\ ~players[i].learning_enabled
    /\ table = LoadedTable(size)

(***************************************************************************)
(* The range of the stored values, checked on Spec                         *)
(***************************************************************************)
\* every value of the table lies in [-1, 1]
WithinUnit(t) == \A k \in DOMAIN t : 0 - QScale <= t[k] /\ t[k] <= QScale

\* values a table may hold before a call: the ends of [-1, 1], zero and the
\* smallest step below zero
UnitValues == {0 - QScale, -1, 0, QScale}

\* tables with values in [-1, 1] over the key a call writes and a key it
\* bootstraps from
UnitTablesFor(call) ==
    LET written == {KeyOf(call.state, call.action)}
        read == IF IsNone(call.next_state) \/ IsNone(call.next_valid_actions)
                THEN {}
                ELSE {KeyOf(ValueOf(call.next_state), ValueOf(call.next_valid_actions)[i]) :
                         i \in 1..Min(1, Len(ValueOf(call.next_valid_actions)))}
    IN UNION {[K -> UnitValues] : K \in SUBSET (written \cup read)}

\* C38: every stored value lies in [-1, 1]; every update_q_value call a
\* turn makes has reward -1, 0 or 1, and reward 0 whenever it has a next
\* state; and such a call, made on any table with values in [-1, 1] with any
\* alpha and gamma in [0, 1], leaves a table with values in [-1, 1], so the
\* range is kept over any sequence of episodes
C38_ValueBound ==
    /\ WithinUnit(table)
    /\ Played =>
           \A k \in 1..Len(log.updates) :
               LET call == log.updates[k] IN
               /\ call.reward \in {-1, 0, 1}
               /\ ~IsNone(call.next_state) => call.reward = 0 /\ ~log.game_over
               /\ log.game_over => IsNone(call.next_state)
               /\ \A t \in UnitTablesFor(call), al \in 0..HDen, ga \in 0..HDen :
                      WithinUnit(update_q_value(t, al, ga, call.state, call.action,
                                                call.reward, call.next_state,
                                                call.next_valid_actions))

\* a table that holds a positive and a negative value after a decided game
C38_Witness ==
    /\ pc = "over" /\ Played /\ log.winner # None
    /\ \E k \in DOMAIN table : table[k] > 0
    /\ \E k \in DOMAIN table : table[k] < 0

(***************************************************************************)
(* The zones of the 4x4 board, checked on Spec                             *)
(***************************************************************************)
\* the sum of the three availability counts of a 4x4 feature dict
ZoneSum(state) ==
    state.qty_middle_zone_available + state.qty_corners_available
    + state.qty_edge_mids_available

\* C39: in every 4x4 state, for either symbol, the three availability
\* counts add up to the number of Empty cells, which is 16 less the
\* wildcards less total_pieces_placed, and total_pieces_placed is the number
\* of moves applied so far; each zone action is valid iff its count is
\* positive and take_random is valid iff the sum is positive
C39_ZonePartition ==
    size = 4 =>
        \A symbol \in Symbols :
            LET state == assess_game_state(board, size, symbol)
                valid == Members(get_valid_actions(board, size, symbol))
            IN
            /\ ZoneSum(state) = Cardinality(EmptyCells(board, size))
            /\ Cardinality(EmptyCells(board, size))
                   = 16 - Cardinality(WildcardCells(board, size)) - state.total_pieces_placed
            /\ state.total_pieces_placed = turnNo
            /\ "take_center" \in valid <=> state.qty_middle_zone_available > 0
            /\ "take_corner" \in valid <=> state.qty_corners_available > 0
            /\ "take_edge_mid" \in valid <=> state.qty_edge_mids_available > 0
            /\ "take_random" \in valid <=> ZoneSum(state) > 0

\* a 4x4 game with wildcards in which, some moves made, one zone has no
\* Empty cell left while another has
C39_Witness ==
    /\ size = 4 /\ Played /\ turnNo >= 3
    /\ dual_cell_positions # {}
    /\ LET state == assess_game_state(board, size, "X") IN
       /\ ZoneSum(state) > 0
       /\ \/ state.qty_middle_zone_available = 0
          \/ state.qty_corners_available = 0
          \/ state.qty_edge_mids_available = 0
       /\ "take_random" \in Members(get_valid_actions(board, size, "X"))

====
